---- MODULE Spec2Model ----
(***************************************************************************)
(* Model of the ring-buffer reader of traceevent (buffer.rs): the page     *)
(* extractor, the record parser, the per-buffer producers (the generator   *)
(* of flyrecord), the k-way merge and the driver closure, and the event    *)
(* descriptor cache.                                                       *)
(*                                                                         *)
(* Pages are kept as bytes.  Words wider than the model checker's integers *)
(* (the 64-bit commit word with its flag bits 30 and 31) are kept as their *)
(* little-endian bytes and their bits are read from the bytes.             *)
(***************************************************************************)
EXTENDS Integers, Sequences, FiniteSets, TLC

VARIABLES
    header,      \* the parsed Header (ABI long size, timestamp offset, event ids)
                 \* and whether the build checks integer overflow
    buffers,     \* per buffer: its BufferId (cpu) and page size
    prod,        \* per buffer: the state of its producer (the gen! coroutine)
    heads,       \* MergedIterator: the item held for each producer, if any
    curr,        \* MergedIterator: the producer whose item was handed out last
    cur,         \* the item the driver closure is being called with, if any
    pc,          \* position of the stream: "new", "idle", "item", "end", "panic"
    i,           \* the enumerate() index of the next merged item
    resets,      \* indexes of the items after which the scratch arena was reset
    out,         \* history: the items passed to the consumer callback f
    emitted,     \* history: per buffer, the items its producer yielded
    steps,       \* history: per buffer, how many times its producer was resumed
    extracted,   \* history: per buffer, what extract_page returned for each read
    desc_map,    \* per buffer: the EventDescMap (cold_map and hot_map)
    visitor,     \* the EventVisitor of the callback in progress, if any
    init_calls,  \* history: the (buffer, id) pairs init_desc was called with
    lookups,     \* history: the (buffer, id) pairs EventDescMap::lookup was called with
    reader,      \* a DecompBorrowingReader, its inner reader and what its reads returned
    interp,      \* a C expression, its compiled evaluator and the result of its evaluation
    record       \* one parse_record call: its input, its timestamp and what it returned

\* the state of a flyrecord stream
stream == <<header, buffers, prod, heads, curr, cur, pc, i, resets, out, emitted,
            steps, extracted, desc_map, visitor, init_calls, lookups>>
\* the state of the components a flyrecord stream of the model does not use
others == <<reader, interp, record>>

vars == <<stream, others>>

(***************************************************************************)
(* Bounds of the model.                                                    *)
(***************************************************************************)
\* pages of a whole stream, over all its buffers
MaxPages == 2
\* half of the page size in bytes (extract_page asserts an even page size)
HalfPage == 20
\* largest lost-events count stored in a page
MaxLost == 5

Bufs == {1, 2}
LongSizes == {32, 64}
TsOffsets == {3}
None == <<>>
Some(x) == <<x>>

Zeros(n) == [k \in 1..n |-> 0]
Drop(s, n) == SubSeq(s, n + 1, Len(s))

(***************************************************************************)
(* Kernel ABI integer parsers (little-endian), on byte sequences.          *)
(***************************************************************************)
RECURSIVE le_value(_)
le_value(bytes) ==
    IF bytes = <<>> THEN 0 ELSE Head(bytes) + 256 * le_value(Tail(bytes))

RECURSIVE le_bytes(_, _)
le_bytes(n, k) ==
    IF k = 0 THEN <<>> ELSE <<n % 256>> \o le_bytes(n \div 256, k - 1)

\* Abi::parse_u16/u32/u64: Ok((rest, value)), or an UnexpectedEof I/O error
parse_int(input, n) ==
    IF Len(input) < n
    THEN [ok |-> FALSE, rest |-> input, val |-> 0, bytes |-> <<>>]
    ELSE [ok |-> TRUE, rest |-> Drop(input, n),
          val |-> le_value(SubSeq(input, 1, n)), bytes |-> SubSeq(input, 1, n)]

\* the same parsers for a word that is used through its bits only (the commit
\* word, the record header): the word is kept as its bytes
parse_word(input, n) ==
    IF Len(input) < n
    THEN [ok |-> FALSE, rest |-> input, bytes |-> <<>>]
    ELSE [ok |-> TRUE, rest |-> Drop(input, n), bytes |-> SubSeq(input, 1, n)]

parse_u16(input) == parse_int(input, 2)
parse_u32(input) == parse_int(input, 4)
parse_u64(input) == parse_int(input, 8)

\* bit n of a little-endian word given as bytes
bit(bytes, n) == (bytes[(n \div 8) + 1] \div (2 ^ (n % 8))) % 2

\* the word masked with (1 << n) - 1
RECURSIVE low_bits(_, _)
low_bits(bytes, n) ==
    IF n <= 0 \/ bytes = <<>> THEN 0
    ELSE IF n >= 8 THEN Head(bytes) + 256 * low_bits(Tail(bytes), n - 8)
    ELSE Head(bytes) % (2 ^ n)

long_bytes(long_size) == long_size \div 8

(***************************************************************************)
(* 64-bit words kept as their eight little-endian bytes, and the integer   *)
(* operations of the program on them.                                      *)
(***************************************************************************)
Ones(n) == [j \in 1..n |-> 255]
\* the word of a small natural number
Word(n) == le_bytes(n, 8)
is_negative(bytes) == bytes[Len(bytes)] >= 128

\* x as uN, then into u64: the low n bytes, zero-extended
as_unsigned(w, n) == SubSeq(w, 1, n) \o Zeros(8 - n)
\* x as iN, then into i64: the low n bytes, sign-extended
as_signed(w, n) ==
    SubSeq(w, 1, n) \o (IF is_negative(SubSeq(w, 1, n)) THEN Ones(8 - n) ELSE Zeros(8 - n))

\* a + b + carry modulo 2^(8 * Len(a)), byte by byte
RECURSIVE add_carry(_, _, _)
add_carry(a, b, carry) ==
    IF a = <<>> THEN <<>>
    ELSE <<(Head(a) + Head(b) + carry) % 256>>
         \o add_carry(Tail(a), Tail(b), (Head(a) + Head(b) + carry) \div 256)

wrapping_add(a, b) == add_carry(a, b, 0)
complement(w) == [j \in 1..Len(w) |-> 255 - w[j]]
wrapping_neg(w) == wrapping_add(complement(w), le_bytes(1, Len(w)))

\* u64 addition a + b: a build with overflow checks panics when the sum does
\* not fit, a build without them wraps modulo 2^64
add_u64(a, b, checks) ==
    IF add_carry(a \o <<0>>, b \o <<0>>, 0)[9] = 0 THEN [tag |-> "ok", val |-> wrapping_add(a, b)]
    ELSE IF checks THEN [tag |-> "panic", val |-> a]
    ELSE [tag |-> "wrapped", val |-> wrapping_add(a, b)]

\* w << n for n < 8, byte by byte
RECURSIVE shl_bits(_, _, _)
shl_bits(w, n, carry) ==
    IF w = <<>> THEN <<>>
    ELSE <<(Head(w) * (2 ^ n) + carry) % 256>>
         \o shl_bits(Tail(w), n, (Head(w) * (2 ^ n) + carry) \div 256)

\* w << n: the bits shifted out at the top are lost
shl(w, n) == Zeros(n \div 8) \o SubSeq(shl_bits(w, n % 8, 0), 1, Len(w) - (n \div 8))

\* a & b on two numbers of n bits
RECURSIVE and_bits(_, _, _)
and_bits(a, b, n) ==
    IF n = 0 THEN 0 ELSE (a % 2) * (b % 2) + 2 * and_bits(a \div 2, b \div 2, n - 1)

\* a & b and a | b on two words
bit_and(a, b) == [j \in 1..Len(a) |-> and_bits(a[j], b[j], 8)]
bit_or(a, b) == [j \in 1..Len(a) |-> a[j] + b[j] - and_bits(a[j], b[j], 8)]

(***************************************************************************)
(* BufferError values and stream items.                                    *)
(***************************************************************************)
NoError == [e |-> "", buf |-> 0, count |-> None, io |-> ""]
LostEvents(buf_id, nr_missing) ==
    [e |-> "LostEvents", buf |-> buf_id, count |-> nr_missing, io |-> ""]
IoError(kind) == [e |-> "IoError", buf |-> 0, count |-> None, io |-> kind]

\* BufferItem(Ok((header, desc_map, buf_id, timestamp, data)))
EventItem(b, cpu, ts, data, page, rec, gen) ==
    [kind |-> "event", buf |-> b, cpu |-> cpu, ts |-> ts, data |-> data,
     err |-> NoError, page |-> page, rec |-> rec, gen |-> gen]
\* BufferItem(Err(err))
ErrItem(b, cpu, err, page, gen) ==
    [kind |-> "err", buf |-> b, cpu |-> cpu, ts |-> 0, data |-> <<>>,
     err |-> err, page |-> page, rec |-> 0, gen |-> gen]

(***************************************************************************)
(* BorrowingRead::read(count) on a reader given as the list of the chunks  *)
(* its successive reads find: a chunk of bytes, or an I/O failure.  A      *)
(* reader with fewer than count bytes left reports UnexpectedEof.          *)
(***************************************************************************)
read(input, count) ==
    IF input = <<>> THEN [ok |-> FALSE, io |-> "UnexpectedEof", bytes |-> <<>>, input |-> input]
    ELSE IF Head(input).io # "ok"
    THEN [ok |-> FALSE, io |-> Head(input).io, bytes |-> <<>>, input |-> Tail(input)]
    ELSE IF Len(Head(input).bytes) < count
    THEN [ok |-> FALSE, io |-> "UnexpectedEof", bytes |-> <<>>, input |-> <<>>]
    ELSE [ok |-> TRUE, io |-> "", bytes |-> SubSeq(Head(input).bytes, 1, count),
          input |-> Tail(input)]

(***************************************************************************)
(* extract_page.  The result is one of                                     *)
(*   "none"  Ok(None): no more pages                                       *)
(*   "err"   Err(err)                                                      *)
(*   "page"  Ok(Some((data, timestamp, recoverable_err))), data being the  *)
(*           DerefMap over the page that slices                            *)
(*           [consumed .. data_size + consumed] when it is dereferenced    *)
(*   "panic" an assertion or a slice index out of range                    *)
(***************************************************************************)
PageResult(tag, input, err, page, consumed, data_size, timestamp, recoverable, commit) ==
    [tag |-> tag, input |-> input, err |-> err, page |-> page, consumed |-> consumed,
     data_size |-> data_size, timestamp |-> timestamp, recoverable |-> recoverable,
     commit |-> commit]

PageFail(tag, input, err) == PageResult(tag, input, err, <<>>, 0, 0, 0, None, <<>>)

\* Err(err) if err.kind() == io::ErrorKind::UnexpectedEof => return Ok(None)
end_of_pages_as_error(r) == FALSE
end_of_pages(r) == ~r.ok /\ r.io = "UnexpectedEof"

\* (commit & missing_events_mask) != 0, the mask being 1 << 31
missing_events_bit30(commit) == bit(commit, 30) # 0
missing_events(commit) == bit(commit, 31) # 0

\* (commit & missing_events_stored_mask) != 0, the mask being 1 << 30
missing_events_stored(commit) == bit(commit, 30) # 0

extract_page(h, buf_id, input, page_size) ==
    IF page_size % 2 # 0 THEN PageFail("panic", input, NoError)
    ELSE
    LET r == read(input, page_size) IN
    IF end_of_pages(r) THEN PageFail("none", r.input, NoError)
    ELSE IF ~r.ok THEN PageFail("err", r.input, IoError(r.io))
    ELSE
    LET page_data == r.bytes
        remaining == Len(page_data)
        t == parse_u64(page_data)
    IN
    IF ~t.ok THEN PageFail("err", r.input, IoError("UnexpectedEof"))
    ELSE
    LET c == IF h.long_size = 64 THEN parse_word(t.rest, 8) ELSE parse_word(t.rest, 4) IN
    IF ~c.ok THEN PageFail("err", r.input, IoError("UnexpectedEof"))
    ELSE
    LET data == c.rest
        commit == c.bytes
        \* data_size_mask & commit: at most 27 bits, so it always fits in usize
        data_size == low_bits(commit, 27)
        consumed == remaining - Len(data)
        has_missing_events == missing_events(commit)
        has_missing_events_stored == missing_events_stored(commit)
    IN
    IF has_missing_events /\ has_missing_events_stored
    THEN
        \* &data[data_size..]
        IF data_size > Len(data)
        THEN PageResult("panic", r.input, NoError, page_data, consumed, data_size, t.val,
                        None, commit)
        ELSE
        LET nr == IF h.long_size = 32
                  THEN parse_u32(Drop(data, data_size))
                  ELSE parse_u64(Drop(data, data_size))
        IN
        IF ~nr.ok
        THEN PageResult("err", r.input, IoError("UnexpectedEof"), page_data, consumed,
                        data_size, t.val, None, commit)
        ELSE PageResult("page", r.input, NoError, page_data, consumed, data_size,
                        t.val, Some(LostEvents(buf_id, Some(nr.val))), commit)
    ELSE IF has_missing_events
    THEN PageResult("page", r.input, NoError, page_data, consumed, data_size,
                    t.val, Some(LostEvents(buf_id, None)), commit)
    ELSE PageResult("page", r.input, NoError, page_data, consumed, data_size,
                    t.val, None, commit)

(***************************************************************************)
(* parse_record.  The result is "ok" (remaining input, timestamp, record), *)
(* "err" (an UnexpectedEof I/O error) or "panic".                          *)
(***************************************************************************)
RecResult(tag, rest, ts, rec, data) ==
    [tag |-> tag, rest |-> rest, ts |-> ts, rec |-> rec, data |-> data]

\* take(input, count)
take(input, count) ==
    IF count > Len(input)
    THEN [ok |-> FALSE, rest |-> input, data |-> <<>>]
    ELSE [ok |-> TRUE, rest |-> Drop(input, count), data |-> SubSeq(input, 1, count)]

\* u32 subtraction a - b: a build with overflow checks panics when b > a, a
\* build without them wraps modulo 2^32 (kept as the distance below 2^32)
sub_u32(a, b, checks) ==
    IF a >= b THEN [tag |-> "ok", val |-> a - b, below |-> 0]
    ELSE IF checks THEN [tag |-> "panic", val |-> 0, below |-> 0]
    ELSE [tag |-> "wrapped", val |-> 0, below |-> b - a]

\* a timestamp record that keeps nothing of the old timestamp
top_bits_dropped(timestamp) == Zeros(8)

\* timestamp & (0xf8u64 << 56): the top five bits of a timestamp
top_bits(timestamp) == bit_and(timestamp, Zeros(7) \o <<248>>)

\* a padding that skips its whole declared length after the length word
skip_padding_and_word(input, len) ==
    IF len + 4 > Len(input) THEN <<>> ELSE Drop(input, len + 4)

\* a padding that is left in place when its length is larger than the input
skip_padding_or_stay(input, len) ==
    IF len > Len(input) THEN input ELSE Drop(input, len)

\* input.get(len_usize..).unwrap_or(&[]): a padding longer than the
\* remaining input takes all of it
skip_padding(input, len) ==
    IF len > Len(input) THEN <<>> ELSE Drop(input, len)

\* the value of a u32 as far as the lengths of the inputs can tell: a value
\* of 2^30 or more, which is larger than any input, is kept as 2^30 plus its
\* low 30 bits
u32_len(bytes) ==
    IF bytes[4] >= 64 THEN le_value(SubSeq(bytes, 1, 3) \o <<64 + (bytes[4] % 64)>>)
    ELSE le_value(bytes)

\* timestamp is a 64-bit word, and so is the timestamp of the result
parse_record(h, input, timestamp) ==
    LET hd == parse_word(input, 4) IN
    IF ~hd.ok THEN RecResult("err", input, timestamp, "", <<>>)
    ELSE
    LET b == hd.bytes
        \* record_header & ((1 << 5) - 1) and record_header >> 5
        typ == b[1] % 32
        delta == (b[1] \div 32) + 8 * b[2] + 2048 * b[3] + 524288 * b[4]
        w == parse_word(hd.rest, 4)
        word == u32_len(w.bytes)
    IN
    CASE typ = 29 ->
            IF ~w.ok THEN RecResult("err", input, timestamp, "", <<>>)
            ELSE
            \* len.saturating_sub(4)
            LET len == IF word < 4 THEN 0 ELSE word - 4 IN
            RecResult("ok", skip_padding(w.rest, len), timestamp, "Padding", <<>>)
      [] typ = 30 ->
            IF ~w.ok THEN RecResult("err", input, timestamp, "", <<>>)
            ELSE
            \* let x: u64 = x.into(); let extend = delta + (x << 27)
            LET extend == wrapping_add(Word(delta), shl(w.bytes \o Zeros(4), 27))
                ts == add_u64(timestamp, extend, h.overflow_checks)
            IN
            IF ts.tag = "panic" THEN RecResult("panic", input, timestamp, "", <<>>)
            ELSE RecResult("ok", w.rest, ts.val, "TimeExtend", <<>>)
      [] typ = 31 ->
            IF ~w.ok THEN RecResult("err", input, timestamp, "", <<>>)
            ELSE
            LET msb == top_bits(timestamp)
                ts == wrapping_add(Word(delta), shl(w.bytes \o Zeros(4), 27))
            IN
            RecResult("ok", w.rest, bit_or(ts, msb), "Timestamp", <<>>)
      [] typ = 0 ->
            IF ~w.ok THEN RecResult("err", input, timestamp, "", <<>>)
            ELSE
            \* The size includes the size itself
            LET size == sub_u32(word, 4, h.overflow_checks) IN
            IF size.tag = "panic" THEN RecResult("panic", input, timestamp, "", <<>>)
            ELSE IF size.tag = "wrapped"
            \* a size of nearly 2^32 bytes: more than any input holds
            THEN RecResult("err", input, timestamp, "", <<>>)
            ELSE
            \* aligned = size & !(alignment - 1); padding = aligned - size
            LET aligned == (size.val \div 4) * 4
                padding == sub_u32(aligned, size.val, h.overflow_checks)
                t == take(w.rest, size.val)
                ts == add_u64(timestamp, Word(delta), h.overflow_checks)
            IN
            IF padding.tag = "panic" THEN RecResult("panic", input, timestamp, "", <<>>)
            ELSE IF ~t.ok THEN RecResult("err", input, timestamp, "", <<>>)
            ELSE IF ts.tag = "panic" THEN RecResult("panic", input, timestamp, "", <<>>)
            ELSE RecResult("ok", t.rest, ts.val, "Event", t.data)
      [] OTHER ->
            LET t == take(hd.rest, typ * 4)
                ts == add_u64(timestamp, Word(delta), h.overflow_checks)
            IN
            IF ~t.ok THEN RecResult("err", input, timestamp, "", <<>>)
            ELSE IF ts.tag = "panic" THEN RecResult("panic", input, timestamp, "", <<>>)
            ELSE RecResult("ok", t.rest, ts.val, "Event", t.data)

(***************************************************************************)
(* The per-buffer producer: the gen! coroutine of make_record_iter.  pos   *)
(* is the yield it is suspended at:                                        *)
(*   "start"    not resumed yet                                            *)
(*   "lost"     after yielding the page's recoverable error                *)
(*   "rec"      after yielding an event, inside the record loop            *)
(*   "recerr"   after yielding a record parse error                        *)
(*   "pageerr"  after yielding a page extraction error                     *)
(*   "done"     the coroutine has returned                                 *)
(* parsed is the number of bytes the parse_record calls of the current     *)
(* page have consumed, and loops the history of the record loops that have *)
(* ended.  The timestamps of the captures stay below 2^31: the producer    *)
(* keeps the running timestamp as a number and hands parse_record its word. *)
(***************************************************************************)
\* Header::timestamp_fixer(): the capture's offset correction
timestamp_fixer(h, timestamp) == timestamp + h.ts_offset

Producer(input) ==
    [pos |-> "start", input |-> input, page |-> <<>>, consumed |-> 0,
     data_size |-> 0, data |-> <<>>, timestamp |-> 0, page_no |-> 0, rec_no |-> 0,
     parsed |-> 0, loops |-> <<>>]

NoItem == ErrItem(0, 0, NoError, 0, 0)

Yield(p, pos, item, log) == [tag |-> "item", p |-> [p EXCEPT !.pos = pos], item |-> item, log |-> log]
Return(p, log) ==
    [tag |-> "done", p |-> [Producer(p.input) EXCEPT !.pos = "done", !.page_no = p.page_no,
                                                     !.loops = p.loops],
     item |-> NoItem, log |-> log]
Panic(p, log) == [tag |-> "panic", p |-> [p EXCEPT !.pos = "panic"], item |-> NoItem, log |-> log]

\* the producer whose record loop has ended, by the end of the data or by the
\* break that follows a parse error
LoopEnded(p, how) ==
    [p EXCEPT !.loops = Append(@, [page_no |-> p.page_no, data_size |-> p.data_size,
                                   parsed |-> p.parsed, left |-> Len(p.data), how |-> how,
                                   records |-> p.rec_no])]

\* what the history keeps of one extract_page call
PageLog(r, page_size) ==
    [tag |-> r.tag, commit |-> r.commit, recoverable |-> r.recoverable, err |-> r.err,
     data_size |-> r.data_size, consumed |-> r.consumed, page_size |-> page_size]

RECURSIVE record_loop(_, _, _, _, _)
RECURSIVE page_loop(_, _, _, _, _)
RECURSIVE record_match(_, _, _, _, _, _)
RECURSIVE page_match(_, _, _, _, _, _)

\* a record loop over all the bytes of the page that follow its header
deref_data_whole_page(h, b, bf, p, log) ==
    record_loop(h, b, bf, [p EXCEPT !.data = Drop(p.page, p.consumed)], log)

\* let mut data = &*data: the DerefMap slices the page here
deref_data(h, b, bf, p, log) ==
    IF p.consumed + p.data_size > Len(p.page) THEN Panic(p, log)
    ELSE record_loop(h, b, bf,
                     [p EXCEPT !.data = SubSeq(p.page, p.consumed + 1, p.consumed + p.data_size)],
                     log)

\* the arms with the corrected timestamp kept as the running timestamp
record_match_keeps_fixed(h, b, bf, p, log, r) ==
    CASE r.tag = "panic" -> Panic(p, log)
      [] r.tag = "err" ->
            Yield(LoopEnded(p, "break"), "recerr",
                  ErrItem(b, bf.cpu, IoError("UnexpectedEof"), p.page_no, 0), log)
      [] OTHER ->
            LET q == [p EXCEPT !.timestamp = timestamp_fixer(h, le_value(r.ts)),
                               !.data = r.rest, !.rec_no = p.rec_no + 1,
                               !.parsed = p.parsed + Len(p.data) - Len(r.rest)]
            IN
            IF r.rec = "Event"
            THEN Yield(q, "rec",
                       EventItem(b, bf.cpu, q.timestamp, r.data, q.page_no, q.rec_no, 0),
                       log)
            ELSE record_loop(h, b, bf, q, log)

\* the arms of match parse_record(header, data, timestamp), r being its result
record_match(h, b, bf, p, log, r) ==
    CASE r.tag = "panic" -> Panic(p, log)
      [] r.tag = "err" ->
            Yield(LoopEnded(p, "break"), "recerr",
                  ErrItem(b, bf.cpu, IoError("UnexpectedEof"), p.page_no, 0), log)
      [] OTHER ->
            LET q == [p EXCEPT !.timestamp = le_value(r.ts), !.data = r.rest,
                               !.rec_no = p.rec_no + 1,
                               !.parsed = p.parsed + Len(p.data) - Len(r.rest)]
            IN
            IF r.rec = "Event"
            THEN Yield(q, "rec",
                       EventItem(b, bf.cpu, timestamp_fixer(h, q.timestamp), r.data,
                                 q.page_no, q.rec_no, 0),
                       log)
            ELSE record_loop(h, b, bf, q, log)

\* while data.len() != 0 { match parse_record(header, data, timestamp) ... }
record_loop(h, b, bf, p, log) ==
    IF p.data = <<>> THEN page_loop(h, b, bf, LoopEnded(p, "end"), log)
    ELSE record_match(h, b, bf, p, log, parse_record(h, p.data, Word(p.timestamp)))

\* the arms of match extract_page(...), r being its result
page_match(h, b, bf, p, log, r) ==
    LET log1 == Append(log, PageLog(r, bf.page_size))
        q == [p EXCEPT !.input = r.input, !.page = r.page, !.consumed = r.consumed,
                       !.data_size = r.data_size, !.data = <<>>, !.parsed = 0,
                       !.timestamp = r.timestamp, !.page_no = p.page_no + 1, !.rec_no = 0]
    IN
    CASE r.tag = "panic" -> Panic([p EXCEPT !.input = r.input], log1)
      [] r.tag = "none" ->
            Return([p EXCEPT !.input = r.input, !.page_no = p.page_no + 1], log1)
      [] r.tag = "err" ->
            Yield([p EXCEPT !.input = r.input, !.page_no = p.page_no + 1], "pageerr",
                  ErrItem(b, bf.cpu, r.err, p.page_no + 1, 0), log1)
      [] OTHER ->
            IF r.recoverable # None
            THEN Yield(q, "lost", ErrItem(b, bf.cpu, r.recoverable[1], q.page_no, 0), log1)
            ELSE deref_data(h, b, bf, q, log1)

\* loop { match extract_page(header, &buf_id, &mut buffer.reader, buffer.page_size) ... }
page_loop(h, b, bf, p, log) ==
    page_match(h, b, bf, p, log, extract_page(h, b, p.input, bf.page_size))

\* the coroutine with the recoverable error of a page ending it
resume_lost_is_fatal(h, b, bf, p) ==
    CASE p.pos = "start" -> page_loop(h, b, bf, p, <<>>)
      [] p.pos = "lost" -> Return(p, <<>>)
      [] p.pos = "rec" -> record_loop(h, b, bf, p, <<>>)
      [] p.pos = "recerr" -> page_loop(h, b, bf, p, <<>>)
      [] OTHER -> Return(p, <<>>)

\* the coroutine with a record parse error ending it
resume_parse_error_is_fatal(h, b, bf, p) ==
    CASE p.pos = "start" -> page_loop(h, b, bf, p, <<>>)
      [] p.pos = "lost" -> deref_data(h, b, bf, p, <<>>)
      [] p.pos = "rec" -> record_loop(h, b, bf, p, <<>>)
      [] OTHER -> Return(p, <<>>)

\* one call of next() on the coroutine: run it to its next yield or to its end
resume(h, b, bf, p) ==
    CASE p.pos = "start" -> page_loop(h, b, bf, p, <<>>)
      [] p.pos = "lost" -> deref_data(h, b, bf, p, <<>>)
      [] p.pos = "rec" -> record_loop(h, b, bf, p, <<>>)
      [] p.pos = "recerr" -> page_loop(h, b, bf, p, <<>>)
      [] p.pos = "pageerr" -> Return(p, <<>>)
      [] OTHER -> Return(p, <<>>)

(***************************************************************************)
(* impl Ord for BufferItem                                                 *)
(***************************************************************************)
cmp_without_cpu(x, y) ==
    CASE x.kind = "event" /\ y.kind = "event" ->
            IF x.ts < y.ts THEN "Less" ELSE IF x.ts = y.ts THEN "Equal" ELSE "Greater"
      [] x.kind = "err" /\ y.kind = "event" -> "Less"
      [] x.kind = "event" /\ y.kind = "err" -> "Greater"
      [] OTHER -> "Equal"

cmp_errors_last(x, y) ==
    CASE x.kind = "event" /\ y.kind = "event" ->
            IF x.ts < y.ts \/ (x.ts = y.ts /\ x.cpu < y.cpu) THEN "Less"
            ELSE IF x.ts = y.ts /\ x.cpu = y.cpu THEN "Equal"
            ELSE "Greater"
      [] x.kind = "err" /\ y.kind = "event" -> "Greater"
      [] x.kind = "event" /\ y.kind = "err" -> "Less"
      [] OTHER -> "Equal"

\* impl PartialEq for BufferItem: two events are equal when their timestamps
\* are; anything else is equal to itself only (std::ptr::eq), an item being
\* the gen-th value its producer has yielded
eq(x, y) ==
    IF x.kind = "event" /\ y.kind = "event" THEN x.ts = y.ts
    ELSE x.buf = y.buf /\ x.gen = y.gen

\* impl Ord for BufferItem
cmp(x, y) ==
    CASE x.kind = "event" /\ y.kind = "event" ->
            IF x.ts < y.ts \/ (x.ts = y.ts /\ x.cpu < y.cpu) THEN "Less"
            ELSE IF x.ts = y.ts /\ x.cpu = y.cpu THEN "Equal"
            ELSE "Greater"
      [] x.kind = "err" /\ y.kind = "event" -> "Less"
      [] x.kind = "event" /\ y.kind = "err" -> "Greater"
      [] OTHER -> "Equal"

(***************************************************************************)
(* The captures the model reads: pages written in the wire format that     *)
(* extract_page and parse_record read.                                     *)
(***************************************************************************)
PageSize == 2 * HalfPage

\* an event record of implicit size: type = payload words, then the payload,
\* which starts with the event id
EncEvent(delta, id, words) ==
    le_bytes(words + 32 * delta, 4) \o le_bytes(id, 2) \o Zeros(4 * words - 2)
\* a time-extend record
EncTimeExtend(delta, x) == le_bytes(30 + 32 * delta, 4) \o le_bytes(x, 4)
\* the header of an event record whose payload is cut short by the end of the data
EncCut(delta, words) == le_bytes(words + 32 * delta, 4)

\* an event record of explicit size: type 0, then the size, which counts
\* itself, then the payload
EncSizedEvent(delta, id, words) ==
    le_bytes(32 * delta, 4) \o le_bytes(4 + 4 * words, 4) \o le_bytes(id, 2)
    \o Zeros(4 * words - 2)
\* an absolute timestamp record
EncTimestamp(delta, x) == le_bytes(31 + 32 * delta, 4) \o le_bytes(x, 4)
\* a padding record that declares len bytes, followed by fill bytes
EncPadding(delta, len, fill) ==
    le_bytes(29 + 32 * delta, 4) \o le_bytes(len, 4) \o Zeros(fill)

EncRecord(r) ==
    CASE r.t = "ev" -> EncEvent(r.delta, r.id, 1)
      [] r.t = "te" -> EncTimeExtend(r.delta, 0)
      [] r.t = "ev0" -> EncSizedEvent(r.delta, r.id, 1)
      [] r.t = "ts" -> EncTimestamp(r.delta, 0)
      [] r.t = "pad" -> EncPadding(r.delta, r.len, r.fill)
      [] r.t = "stub" -> <<29, 0>>
      [] OTHER -> EncCut(r.delta, 5)

RECURSIVE EncRecords(_)
EncRecords(recs) ==
    IF recs = <<>> THEN <<>> ELSE EncRecord(Head(recs)) \o EncRecords(Tail(recs))

HeaderBytes(long_size) == 8 + long_bytes(long_size)

\* the data length the commit word of a page declares
DeclaredSize(d, long_size) ==
    CASE d.size = "exact" -> Len(EncRecords(d.recs))
      [] d.size = "full" -> PageSize - HeaderBytes(long_size)
      [] OTHER -> PageSize - HeaderBytes(long_size) + 4

EncCommit(d, long_size) ==
    LET w == le_bytes(DeclaredSize(d, long_size), 4)
        flags == (IF d.missing THEN 128 ELSE 0) + (IF d.stored THEN 64 ELSE 0)
    IN [w EXCEPT ![4] = w[4] + flags] \o Zeros(long_bytes(long_size) - 4)

EncPage(d, long_size) ==
    LET body == EncRecords(d.recs)
                \o (IF d.stored /\ d.size = "exact" THEN le_bytes(d.count, long_bytes(long_size))
                    ELSE <<>>)
        bytes == le_bytes(d.ts, 8) \o EncCommit(d, long_size) \o body
    IN
    IF Len(bytes) >= PageSize THEN SubSeq(bytes, 1, PageSize)
    ELSE bytes \o Zeros(PageSize - Len(bytes))

\* what one read of page_size bytes finds
EncChunk(d, long_size) ==
    IF d.io = "ok" THEN [io |-> "ok", bytes |-> EncPage(d, long_size)]
    ELSE [io |-> d.io, bytes |-> <<>>]

Ev(delta, id) == [t |-> "ev", delta |-> delta, id |-> id]
Te(delta) == [t |-> "te", delta |-> delta, id |-> 0]
Cut == [t |-> "cut", delta |-> 0, id |-> 0]
\* the first two bytes of a record, the data of the page ending there
Stub == [t |-> "stub", delta |-> 0, id |-> 0]
Ev0(delta, id) == [t |-> "ev0", delta |-> delta, id |-> id]
Ts(delta) == [t |-> "ts", delta |-> delta, id |-> 0]
Pad(len, fill) == [t |-> "pad", delta |-> 0, id |-> 0, len |-> len, fill |-> fill]
\* a padding whose header carries a time delta
PadAfter(delta, len, fill) == [Pad(len, fill) EXCEPT !.delta = delta]

PageDesc(ts, missing, stored, size, recs) ==
    [io |-> "ok", ts |-> ts, missing |-> missing, stored |-> stored, count |-> MaxLost,
     size |-> size, recs |-> recs]

PageKinds ==
    { PageDesc(10, FALSE, FALSE, "exact", <<Ev(0, 1)>>),
      PageDesc(20, FALSE, FALSE, "exact", <<Te(5), Ev(5, 2)>>),
      PageDesc(10, FALSE, FALSE, "exact", <<Ev(0, 1), Ev(20, 2)>>),
      PageDesc(20, FALSE, FALSE, "exact", <<Ev(0, 1), Ev(10, 1)>>),
      PageDesc(20, TRUE, TRUE, "exact", <<Ev(0, 2)>>),
      PageDesc(20, TRUE, FALSE, "exact", <<Ev(0, 1)>>),
      PageDesc(10, FALSE, TRUE, "exact", <<Ev(0, 1)>>),
      PageDesc(10, FALSE, FALSE, "exact", <<Ev(0, 1), Cut, Ev(0, 2)>>),
      PageDesc(10, FALSE, FALSE, "exact", <<>>),
      PageDesc(20, FALSE, FALSE, "over", <<Ev(0, 1)>>),
      PageDesc(20, TRUE, FALSE, "over", <<Ev(0, 1)>>),
      PageDesc(20, TRUE, TRUE, "over", <<Ev(0, 1)>>),
      PageDesc(20, TRUE, TRUE, "full", <<Ev(0, 1)>>),
      [PageDesc(0, FALSE, FALSE, "exact", <<>>) EXCEPT !.io = "Other"] }

SeqsOf(S, n) == UNION {[1..k -> S] : k \in 0..n}

\* the page lists of the two buffers of a stream of at most n pages
Streams(kinds, n) ==
    UNION { { [b \in Bufs |-> IF b = 1 THEN s1 ELSE s2] :
                s1 \in [1..k -> kinds], s2 \in SeqsOf(kinds, n - k) } : k \in 0..n }

EventIds == {1, 2}
Headers == [long_size : LongSizes, ts_offset : TsOffsets, overflow_checks : BOOLEAN,
            event_descs : {EventIds}]

\* EventDescMap::new
EventDescMap_new(h) == [cold_map |-> h.event_descs, hot_map |-> <<>>]

NoVisitor == [live |-> FALSE, buf |-> 0, data |-> <<>>, event_desc |-> None, calls |-> 0,
              lookups |-> 0]

\* no DecompBorrowingReader: the buffers of the captures are not compressed
NoReader == [st |-> "none"]

\* the state of a flyrecord stream before MergedIterator::new
StreamInit(sts, hs) ==
    /\ header \in hs
    /\ \E st \in sts :
          /\ buffers = [b \in Bufs |-> [cpu |-> b - 1, page_size |-> PageSize, pages |-> st[b]]]
          /\ prod = [b \in Bufs |->
                        Producer([k \in 1..Len(st[b]) |-> EncChunk(st[b][k], header.long_size)])]
    /\ heads = [b \in Bufs |-> None]
    /\ curr = 0
    /\ cur = None
    /\ pc = "new"
    /\ i = 0
    /\ resets = <<>>
    /\ out = <<>>
    /\ emitted = [b \in Bufs |-> <<>>]
    /\ steps = [b \in Bufs |-> 0]
    /\ extracted = [b \in Bufs |-> <<>>]
    /\ desc_map = [b \in Bufs |-> EventDescMap_new(header)]
    /\ visitor = NoVisitor
    /\ init_calls = <<>>
    /\ lookups = <<>>

\* no expression is being interpreted
NoInterp == [pc |-> "none"]
\* no parse_record call on its own
NoRecord == [pc |-> "none"]

\* the state flyrecord starts from, for a header of hs and a capture of sts
InitStreams(sts, hs) ==
    /\ reader = NoReader
    /\ interp = NoInterp
    /\ record = NoRecord
    /\ StreamInit(sts, hs)

InitWith(kinds, n, hs) == InitStreams(Streams(kinds, n), hs)

Init == InitWith(PageKinds, MaxPages, Headers)

(***************************************************************************)
(* EventDescMap::lookup and the EventVisitor's memoized entry.             *)
(***************************************************************************)
\* the consumer's init_desc closure: a stateful closure that numbers its calls
init_desc(calls) == Len(calls) + 1

\* a lookup that initializes again an entry that is already hot
lookup_reinit(m, id, calls) ==
    IF id \in DOMAIN m.hot_map \/ id \in m.cold_map
    THEN LET user == init_desc(calls) IN
         [m |-> [cold_map |-> m.cold_map \ {id},
                 hot_map |-> [k \in DOMAIN m.hot_map \cup {id} |->
                                 IF k = id THEN user ELSE m.hot_map[k]]],
          found |-> TRUE, user |-> user, init |-> TRUE]
    ELSE [m |-> m, found |-> FALSE, user |-> 0, init |-> FALSE]

\* a lookup that never caches: the id stays cold
lookup_keeps_cold(m, id, calls) ==
    IF id \in m.cold_map
    THEN [m |-> m, found |-> TRUE, user |-> init_desc(calls), init |-> TRUE]
    ELSE [m |-> m, found |-> FALSE, user |-> 0, init |-> FALSE]

\* a lookup that inserts the entry in the hot map without removing it from
\* the cold map
lookup_copies_to_hot(m, id, calls) ==
    IF id \in DOMAIN m.hot_map
    THEN [m |-> m, found |-> TRUE, user |-> m.hot_map[id], init |-> FALSE]
    ELSE IF id \in m.cold_map
    THEN LET user == init_desc(calls) IN
         [m |-> [cold_map |-> m.cold_map,
                 hot_map |-> [k \in DOMAIN m.hot_map \cup {id} |->
                                 IF k = id THEN user ELSE m.hot_map[k]]],
          found |-> TRUE, user |-> user, init |-> TRUE]
    ELSE [m |-> m, found |-> FALSE, user |-> 0, init |-> FALSE]

\* EventDescMap::lookup
lookup(m, id, calls) ==
    IF id \in DOMAIN m.hot_map
    THEN [m |-> m, found |-> TRUE, user |-> m.hot_map[id], init |-> FALSE]
    ELSE IF id \in m.cold_map
    THEN LET user == init_desc(calls) IN
         [m |-> [cold_map |-> m.cold_map \ {id},
                 hot_map |-> [k \in DOMAIN m.hot_map \cup {id} |->
                                 IF k = id THEN user ELSE m.hot_map[k]]],
          found |-> TRUE, user |-> user, init |-> TRUE]
    ELSE [m |-> m, found |-> FALSE, user |-> 0, init |-> FALSE]

\* EventVisitor::event_id
event_id(data) == parse_u16(data)

\* the state a callback works on: its visitor, the buffer's map, the histories
Cb(v, m, calls, looked) == [v |-> v, m |-> m, init_calls |-> calls, lookups |-> looked]

\* an event_entry that looks the id up at every call, the cell set or not
event_entry_without_cell(c) ==
    LET v == [c.v EXCEPT !.calls = c.v.calls + 1]
        id == event_id(v.data)
    IN
    IF ~id.ok THEN [c EXCEPT !.v = v]
    ELSE
    LET l == lookup(c.m, id.val, c.init_calls) IN
    Cb([v EXCEPT !.lookups = v.lookups + 1,
                 !.event_desc = IF l.found THEN Some([id |-> id.val, user |-> l.user])
                                ELSE None],
       l.m,
       IF l.init THEN Append(c.init_calls, <<v.buf, id.val>>) ELSE c.init_calls,
       Append(c.lookups, <<v.buf, id.val>>))

\* EventVisitor::event_entry: self.event_desc.get_or_try_init(...)
event_entry(c) ==
    LET v == [c.v EXCEPT !.calls = c.v.calls + 1] IN
    IF v.event_desc # None THEN [c EXCEPT !.v = v]
    ELSE
    LET id == event_id(v.data) IN
    IF ~id.ok THEN [c EXCEPT !.v = v]
    ELSE
    LET l == lookup(c.m, id.val, c.init_calls) IN
    Cb([v EXCEPT !.lookups = v.lookups + 1,
                 !.event_desc = IF l.found THEN Some([id |-> id.val, user |-> l.user])
                                ELSE None],
       l.m,
       IF l.init THEN Append(c.init_calls, <<v.buf, id.val>>) ELSE c.init_calls,
       Append(c.lookups, <<v.buf, id.val>>))

\* a consumer callback f that asks its visitor n times for the descriptor
RECURSIVE f(_, _)
f(c, n) == IF n = 0 THEN c ELSE f(event_entry(c), n - 1)

\* EventVisitor::new
EventVisitor_new(x) ==
    [live |-> TRUE, buf |-> x.buf, data |-> x.data, event_desc |-> None, calls |-> 0,
     lookups |-> 0]

(***************************************************************************)
(* The merged stream.                                                      *)
(***************************************************************************)
\* the bookkeeping of resuming the producers in `ran`, res[b] being the outcome
Resumed(ran, res) ==
    /\ prod' = [b \in Bufs |-> IF b \in ran THEN res[b].p ELSE prod[b]]
    /\ steps' = [b \in Bufs |-> IF b \in ran THEN steps[b] + 1 ELSE steps[b]]
    /\ extracted' = [b \in Bufs |-> IF b \in ran THEN extracted[b] \o res[b].log
                                    ELSE extracted[b]]
    /\ emitted' = [b \in Bufs |->
                      IF b \in ran /\ res[b].tag = "item"
                      THEN Append(emitted[b], [res[b].item EXCEPT !.gen = steps[b] + 1])
                      ELSE emitted[b]]

\* the item a resumed producer hands to the merge
Head_of(b, r) ==
    IF r.tag = "item" THEN Some([r.item EXCEPT !.gen = steps[b] + 1]) ELSE None

\* MergedIterator::new: take the first item of every producer
New ==
    /\ pc = "new"
    /\ LET res == [b \in Bufs |-> resume(header, b, buffers[b], prod[b])]
           panics == {b \in Bufs : res[b].tag = "panic"}
           ran == {b \in Bufs : \A c \in panics : b <= c}
       IN
       /\ Resumed(ran, res)
       /\ heads' = [b \in Bufs |-> IF b \in ran THEN Head_of(b, res[b]) ELSE None]
       /\ pc' = IF panics = {} THEN "idle" ELSE "panic"
    /\ UNCHANGED <<others, header, buffers, curr, cur, i, resets, out, desc_map, visitor,
                   init_calls, lookups>>

\* a merge that refills from the producer of the item it hands out before
\* returning it (as itertools' kmerge_by does)
MergedNext_refill ==
    /\ pc = "idle"
    /\ LET held == {b \in Bufs : heads[b] # None} IN
       IF held = {}
       THEN /\ pc' = "end" /\ heads' = heads /\ cur' = None /\ curr' = 0
            /\ UNCHANGED <<prod, steps, extracted, emitted>>
       ELSE \E b \in held :
               LET res == [c \in {b} |-> resume(header, c, buffers[c], prod[c])] IN
               /\ \A c \in held : cmp(heads[b][1], heads[c][1]) # "Greater"
               /\ Resumed({b}, res)
               /\ cur' = heads[b]
               /\ heads' = [heads EXCEPT ![b] = Head_of(b, res[b])]
               /\ curr' = b
               /\ pc' = IF res[b].tag = "panic" THEN "panic" ELSE "item"
    /\ UNCHANGED <<others, header, buffers, i, resets, out, desc_map, visitor, init_calls, lookups>>

\* MergedIterator::next: only now advance the producer whose item was handed
\* out last, then hand out the least of the held items
MergedNext ==
    /\ pc = "idle"
    /\ LET ran == IF curr = 0 THEN {} ELSE {curr}
           res == [b \in ran |-> resume(header, b, buffers[b], prod[b])]
           heads1 == [b \in Bufs |-> IF b \in ran THEN Head_of(b, res[b]) ELSE heads[b]]
           held == {b \in Bufs : heads1[b] # None}
       IN
       /\ Resumed(ran, res)
       /\ IF \E b \in ran : res[b].tag = "panic"
          THEN pc' = "panic" /\ heads' = heads1 /\ cur' = None /\ curr' = curr
          ELSE IF held = {}
          THEN pc' = "end" /\ heads' = heads1 /\ cur' = None /\ curr' = 0
          ELSE \E b \in held :
                  /\ \A c \in held : cmp(heads1[b][1], heads1[c][1]) # "Greater"
                  /\ cur' = heads1[b]
                  /\ heads' = [heads1 EXCEPT ![b] = None]
                  /\ curr' = b
                  /\ pc' = "item"
    /\ UNCHANGED <<others, header, buffers, i, resets, out, desc_map, visitor, init_calls, lookups>>

\* the closure with the reset placed after the match: error items reset too
Callback_resets_on_errors(n) ==
    /\ pc = "item"
    /\ LET x == cur[1]
           valid == x.gen = steps[x.buf]
       IN
       /\ out' = Append(out, [item |-> x, valid |-> valid, index |-> i])
       /\ resets' = IF i % 16 = 0 THEN Append(resets, i) ELSE resets
       /\ IF x.kind = "event"
          THEN LET c == f(Cb(EventVisitor_new(x), desc_map[x.buf], init_calls, lookups), n) IN
               /\ visitor' = [c.v EXCEPT !.live = FALSE]
               /\ desc_map' = [desc_map EXCEPT ![x.buf] = c.m]
               /\ init_calls' = c.init_calls
               /\ lookups' = c.lookups
          ELSE UNCHANGED <<visitor, desc_map, init_calls, lookups>>
    /\ i' = i + 1
    /\ cur' = None
    /\ pc' = "idle"
    /\ UNCHANGED <<others, header, buffers, prod, heads, curr, emitted, steps, extracted>>

\* the closure flyrecord maps over the enumerated merged items, with a
\* consumer f that asks for the event's descriptor n times
Callback(n) ==
    /\ pc = "item"
    /\ LET x == cur[1]
           valid == x.gen = steps[x.buf]
       IN
       /\ out' = Append(out, [item |-> x, valid |-> valid, index |-> i])
       /\ IF x.kind = "event"
          THEN LET c == f(Cb(EventVisitor_new(x), desc_map[x.buf], init_calls, lookups), n) IN
               /\ visitor' = [c.v EXCEPT !.live = FALSE]
               /\ desc_map' = [desc_map EXCEPT ![x.buf] = c.m]
               /\ init_calls' = c.init_calls
               /\ lookups' = c.lookups
               /\ resets' = IF i % 16 = 0 THEN Append(resets, i) ELSE resets
          ELSE UNCHANGED <<visitor, desc_map, init_calls, lookups, resets>>
    /\ i' = i + 1
    /\ cur' = None
    /\ pc' = "idle"
    /\ UNCHANGED <<others, header, buffers, prod, heads, curr, emitted, steps, extracted>>

Next == New \/ MergedNext \/ Callback(0)

Spec == Init /\ [][Next]_vars

(***************************************************************************)
(* The stream with a consumer that uses the descriptors: f asks each       *)
(* visitor for its descriptor up to MaxCalls times.  The events carry ids  *)
(* the header knows (1, 2) and one it does not (7).                        *)
(***************************************************************************)
\* calls of event_desc() a callback makes on its visitor
MaxCalls == 2

VisitorKinds ==
    { PageDesc(10, FALSE, FALSE, "exact", <<Ev(0, 1), Ev(5, 1)>>),
      PageDesc(10, FALSE, FALSE, "exact", <<Ev(1, 1), Ev(5, 2)>>),
      PageDesc(20, FALSE, FALSE, "exact", <<Ev(0, 2)>>),
      PageDesc(20, FALSE, FALSE, "exact", <<Ev(0, 7), Ev(1, 7)>>) }

VisitorHeaders == {hd \in Headers : hd.long_size = 64 /\ hd.overflow_checks}

InitVisitor == InitWith(VisitorKinds, MaxPages, VisitorHeaders)

NextVisitor == New \/ MergedNext \/ \E n \in 0..MaxCalls : Callback(n)

SpecVisitor == InitVisitor /\ [][NextVisitor]_vars

(***************************************************************************)
(* The streams of pages of every kind of record: events of implicit and of *)
(* explicit size, time extends, absolute timestamps and paddings, the last *)
(* padding of a page declaring more bytes than the page has left; one page *)
(* whose last event is cut short, and one whose data is two bytes long.    *)
(***************************************************************************)
\* the length a padding declares beyond the end of any page
LongPadding == 100

RecordKinds ==
    { PageDesc(10, FALSE, FALSE, "exact", <<Ev(0, 1), Te(5), Ev(5, 2)>>),
      PageDesc(10, FALSE, FALSE, "exact", <<Ts(7), Ev0(1, 1)>>),
      PageDesc(20, FALSE, FALSE, "exact", <<Ev(0, 1), Pad(8, 4)>>),
      PageDesc(20, FALSE, FALSE, "exact", <<Pad(8, 4), Ev(1, 2)>>),
      PageDesc(20, FALSE, FALSE, "exact", <<PadAfter(3, 8, 4), Ev(1, 2)>>),
      PageDesc(10, FALSE, FALSE, "exact", <<Ev(0, 2), Pad(LongPadding, 8)>>),
      PageDesc(20, TRUE, FALSE, "exact", <<Te(1), Ev(0, 1)>>),
      PageDesc(20, FALSE, FALSE, "exact", <<>>),
      PageDesc(10, FALSE, FALSE, "exact", <<Ev(0, 1), Cut>>),
      PageDesc(10, FALSE, FALSE, "exact", <<Stub>>) }

InitRecords == InitWith(RecordKinds, MaxPages, Headers)

SpecRecords == InitRecords /\ [][Next]_vars

(***************************************************************************)
(* parse_record on its own: one call on the bytes of one record, followed  *)
(* by the bytes that come after it in the page, with a running timestamp   *)
(* that uses all of its 64 bits.                                           *)
(***************************************************************************)
\* the header word of a record: the type in the low 5 bits, the delta above
EncHeader(typ, delta) == <<typ + 32 * (delta % 8)>> \o le_bytes(delta \div 8, 3)

\* the largest delta a record header holds: 2^27 - 1
MaxDelta == 134217727
Deltas == {0, 1, 77, MaxDelta}
\* the second word of a record: 0, 1, 2^31 + 5, 2^32 - 1
SecondWords == {Zeros(4), <<1, 0, 0, 0>>, <<5, 0, 0, 128>>, Ones(4)}
\* running timestamps: 0, 5, 2^59 - 1, 2^59, 2^63, one with bits 61 and 62 set, 2^64 - 1
Timestamps ==
    {Word(0), Word(5), Ones(7) \o <<7>>, Zeros(7) \o <<8>>, Zeros(7) \o <<128>>,
     <<1, 2, 3, 4, 5, 6, 7, 96>>, Ones(8)}

\* what follows the record in the page: nothing, or an event record
Followers == {<<>>, EncEvent(1, 2, 1)}

\* the bytes of an event record of explicit size whose size word is size,
\* with a payload of payload bytes
EncSized(delta, size, payload) ==
    EncHeader(0, delta) \o le_bytes(size, 4) \o [k \in 1..payload |-> k]

\* the records of one call: absolute timestamps and time extends over every
\* delta and second word; paddings that declare less than their length
\* word, what they hold, and more than what is left; events of explicit
\* size whose size word is below 4, not a multiple of 4 (with the bytes up
\* to the next multiple of 4 in the page), and larger than the input; events
\* of implicit size; and records cut before their second word
ParseRecords ==
    { EncHeader(typ, delta) \o x : typ \in {30, 31}, delta \in Deltas, x \in SecondWords }
    \cup { EncPadding(delta, len, fill) :
              delta \in {0, 3}, len \in {0, 3, 4, 8, 12, LongPadding}, fill \in {0, 4, 8} }
    \cup { EncSized(delta, size, payload) :
              delta \in {0, 3}, size \in {0, 3, 4, 5, 8, 10, 11, 12},
              payload \in {0, 4, 8} }
    \cup { EncEvent(delta, 1, words) : delta \in {0, 3}, words \in {1, 2} }
    \cup { EncHeader(typ, 1) : typ \in {0, 1, 29, 30, 31} }
    \cup { <<29, 0>>, <<>> }

InitParse ==
    /\ StreamInit({[b \in Bufs |-> <<>>]}, {hd \in Headers : hd.long_size = 64})
    /\ reader = NoReader
    /\ interp = NoInterp
    /\ \E rec \in ParseRecords, after \in Followers, timestamp \in Timestamps :
          record = [pc |-> "input", input |-> rec \o after, timestamp |-> timestamp,
                    result |-> RecResult("", <<>>, Zeros(8), "", <<>>)]

\* parse_record(header, input, timestamp)
ParseRecord ==
    /\ record.pc = "input"
    /\ record' = [record EXCEPT
                     !.pc = "parsed",
                     !.result = parse_record(header, record.input, record.timestamp)]
    /\ UNCHANGED <<stream, reader, interp>>

NextParse == ParseRecord

SpecParse == InitParse /\ [][NextParse]_vars

(***************************************************************************)
(* The stream of a long capture: one buffer of ScratchPages pages of three *)
(* events each, some of them announcing lost events first, and a second    *)
(* buffer of at most one page, so that the merged stream runs past its     *)
(* sixteenth item with error items at varying indexes.                     *)
(***************************************************************************)
ScratchPages == 6

ScratchKinds ==
    { PageDesc(10, FALSE, FALSE, "exact", <<Ev(0, 1), Ev(1, 1), Ev(1, 2)>>),
      PageDesc(10, TRUE, FALSE, "exact", <<Ev(0, 1), Ev(1, 2), Ev(1, 1)>>) }

ScratchStreams ==
    { [b \in Bufs |-> IF b = 1 THEN s1 ELSE s2] :
          s1 \in [1..ScratchPages -> ScratchKinds],
          s2 \in SeqsOf({PageDesc(10, FALSE, FALSE, "exact", <<Ev(5, 2)>>),
                         PageDesc(10, TRUE, FALSE, "exact", <<>>)}, 1) }

InitScratch == InitStreams(ScratchStreams, VisitorHeaders)

SpecScratch == InitScratch /\ [][Next]_vars

(***************************************************************************)
(* DecompBorrowingReader: the reader of a compressed buffer.  The inner    *)
(* reader is the byte sequence left to read: the u32 chunk count, then per *)
(* chunk its compressed size, its decompressed size and its compressed     *)
(* bytes.                                                                  *)
(***************************************************************************)
\* chunks in a container
MaxChunks == 3
\* read() calls made on a reader
MaxReads == 4
ChunkLens == {0, 1, 2}
ReadCounts == {0, 1, 3}

\* BorrowingRead::read_int on the inner reader
read_int(inner) ==
    LET w == parse_u32(inner) IN
    [ok |-> w.ok, io |-> IF w.ok THEN "" ELSE "UnexpectedEof", val |-> w.val, inner |-> w.rest]

\* BorrowingRead::read(count) on the inner reader
inner_read(inner, count) ==
    IF count > Len(inner)
    THEN [ok |-> FALSE, io |-> "UnexpectedEof", bytes |-> <<>>, inner |-> inner]
    ELSE [ok |-> TRUE, io |-> "", bytes |-> SubSeq(inner, 1, count), inner |-> Drop(inner, count)]

\* the codec of the model: a chunk <<first, n>> stands for the n bytes
\* first, first + 1, ...; the empty chunk stands for no bytes
decompress(compressed) ==
    IF Len(compressed) = 2 THEN [j \in 1..compressed[2] |-> compressed[1] + j - 1] ELSE <<>>

\* Decompressor::decompress_into(src, dst): fills dst, and fails when dst
\* does not have the size of the decompressed data
decompress_into(compressed, dst_len) ==
    LET d == decompress(compressed) IN
    IF Len(d) = dst_len /\ Len(compressed) \in {0, 2}
    THEN [ok |-> TRUE, io |-> "", bytes |-> d]
    ELSE [ok |-> FALSE, io |-> "Other", bytes |-> <<>>]

\* the result of a read: the reader after it, and Ok(bytes) or Err(io)
ReadResult(r, ok, io, bytes) == [r |-> r, ok |-> ok, io |-> io, bytes |-> bytes]

\* DecompBorrowingReader::new; pulled is history: the chunks taken from inner
DecompBorrowingReader_new(inner) ==
    LET n == read_int(inner) IN
    ReadResult([inner |-> n.inner, remaining_chunks |-> n.val, buffer |-> <<>>, offset |-> 0,
                pulled |-> 0],
               n.ok, n.io, <<>>)

\* one chunk decompressed at the end of the buffer, c, d and z being the
\* results of the reads of its sizes and of its compressed bytes
pull_chunk(r, c, d, z) ==
    IF ~c.ok THEN ReadResult([r EXCEPT !.inner = c.inner], FALSE, c.io, <<>>)
    ELSE IF ~d.ok THEN ReadResult([r EXCEPT !.inner = d.inner], FALSE, d.io, <<>>)
    ELSE IF ~z.ok THEN ReadResult([r EXCEPT !.inner = z.inner], FALSE, z.io, <<>>)
    ELSE LET x == decompress_into(z.bytes, d.val) IN
         IF ~x.ok
         THEN ReadResult([r EXCEPT !.inner = z.inner, !.buffer = r.buffer \o Zeros(d.val)],
                         FALSE, x.io, <<>>)
         ELSE ReadResult([r EXCEPT !.inner = z.inner, !.buffer = r.buffer \o x.bytes],
                         TRUE, "", <<>>)

\* a refill that goes on as long as the inner reader has bytes, whatever the
\* declared chunk count
RECURSIVE refill_to_end_of_inner(_, _)
refill_to_end_of_inner(r, count) ==
    IF Len(r.buffer) >= count
    THEN ReadResult([r EXCEPT !.offset = count], TRUE, "", SubSeq(r.buffer, 1, count))
    ELSE IF r.inner = <<>> THEN ReadResult(r, FALSE, "UnexpectedEof", <<>>)
    ELSE
    LET q == [r EXCEPT !.pulled = r.pulled + 1]
        c == read_int(q.inner)
        d == read_int(c.inner)
        p == pull_chunk(q, c, d, inner_read(d.inner, c.val))
    IN
    IF ~p.ok THEN p ELSE refill_to_end_of_inner(p.r, count)

\* while self.buffer.len() < count { ... }; then Ok(&self.buffer[..count])
RECURSIVE refill(_, _)
refill(r, count) ==
    IF Len(r.buffer) >= count
    THEN ReadResult([r EXCEPT !.offset = count], TRUE, "", SubSeq(r.buffer, 1, count))
    ELSE IF r.remaining_chunks = 0 THEN ReadResult(r, FALSE, "UnexpectedEof", <<>>)
    ELSE
    LET q == [r EXCEPT !.remaining_chunks = r.remaining_chunks - 1, !.pulled = r.pulled + 1]
        c == read_int(q.inner)
        d == read_int(c.inner)
        p == pull_chunk(q, c, d, inner_read(d.inner, c.val))
    IN
    IF ~p.ok THEN p ELSE refill(p.r, count)

\* a read that refills without moving the unread bytes to the front
DecompBorrowingReader_read_uncompacted(r, count) ==
    LET len == Len(r.buffer)
        offset == r.offset
    IN
    IF offset + count > len
    THEN IF r.remaining_chunks = 0
         THEN ReadResult([r EXCEPT !.offset = len], FALSE, "UnexpectedEof", <<>>)
         ELSE refill([r EXCEPT !.offset = 0], count)
    ELSE ReadResult([r EXCEPT !.offset = offset + count], TRUE, "",
                    SubSeq(r.buffer, offset + 1, offset + count))

\* DecompBorrowingReader::read
DecompBorrowingReader_read(r, count) ==
    LET len == Len(r.buffer)
        offset == r.offset
    IN
    IF offset + count > len
    THEN IF r.remaining_chunks = 0
         THEN ReadResult([r EXCEPT !.offset = len], FALSE, "UnexpectedEof", <<>>)
         ELSE refill([r EXCEPT !.buffer = SubSeq(r.buffer, offset + 1, len), !.offset = 0],
                     count)
    ELSE ReadResult([r EXCEPT !.offset = offset + count], TRUE, "",
                    SubSeq(r.buffer, offset + 1, offset + count))

\* the compressed form of the chunk of index k and decompressed length n
EncCompressed(k, n) == IF n = 0 THEN <<>> ELSE <<16 * k, n>>

RECURSIVE EncChunks(_, _)
EncChunks(lens, k) ==
    IF lens = <<>> THEN <<>>
    ELSE le_bytes(Len(EncCompressed(k, Head(lens))), 4) \o le_bytes(Head(lens), 4)
         \o EncCompressed(k, Head(lens)) \o EncChunks(Tail(lens), k + 1)

\* a container that declares `declared` chunks and holds chunks of lengths lens
EncContainer(declared, lens) == le_bytes(declared, 4) \o EncChunks(lens, 1)

Containers == [declared : 0..MaxChunks, lens : SeqsOf(ChunkLens, MaxChunks)]

InitReader ==
    /\ StreamInit({[b \in Bufs |-> <<>>]}, VisitorHeaders)
    /\ interp = NoInterp
    /\ record = NoRecord
    /\ \E c \in Containers :
          reader = [st |-> "new", container |-> c, reads |-> <<>>,
                    self |-> [inner |-> EncContainer(c.declared, c.lens), remaining_chunks |-> 0,
                              buffer |-> <<>>, offset |-> 0, pulled |-> 0]]

\* DecompBorrowingReader::new(abi, decomp, reader)
ReaderNew ==
    /\ reader.st = "new"
    /\ LET n == DecompBorrowingReader_new(reader.self.inner) IN
       reader' = [reader EXCEPT !.st = IF n.ok THEN "ready" ELSE "failed", !.self = n.r]
    /\ UNCHANGED <<stream, interp, record>>

\* a read(count) call on the reader; reads is the history of the calls
ReaderRead(count) ==
    /\ reader.st = "ready"
    /\ Len(reader.reads) < MaxReads
    /\ LET x == DecompBorrowingReader_read(reader.self, count) IN
       reader' = [reader EXCEPT
                     !.self = x.r,
                     !.reads = Append(@, [count |-> count, ok |-> x.ok, io |-> x.io,
                                          bytes |-> x.bytes,
                                          unread |-> Len(reader.self.buffer) - reader.self.offset,
                                          pulled |-> reader.self.pulled])]
    /\ UNCHANGED <<stream, interp, record>>

NextReader == ReaderNew \/ \E count \in ReadCounts : ReaderRead(count)

SpecReader == InitReader /\ [][NextReader]_vars

(***************************************************************************)
(* The C expression interpreter: types.                                    *)
(***************************************************************************)
Ty(k) == [k |-> k]
Pointer(t) == [k |-> "Pointer", typ |-> t]
Array(t, n) == [k |-> "Array", typ |-> t, size |-> n]
Typedef(t) == [k |-> "Typedef", typ |-> t]

\* Type::resolve_wrapper
RECURSIVE resolve_wrapper(_)
resolve_wrapper(t) == IF t.k \in {"Typedef", "Enum"} THEN resolve_wrapper(t.typ) ELSE t

ArithInfo(typ, rank, width, signed, unsigned) ==
    [some |-> TRUE, typ |-> typ, rank |-> rank, width |-> width,
     signed |-> Ty(signed), unsigned |-> Ty(unsigned)]

\* Type::arith_info
arith_info(t) ==
    LET typ == resolve_wrapper(t) IN
    CASE typ.k \in {"U8", "I8", "Bool"} -> ArithInfo(typ, 0, 8, "I8", "U8")
      [] typ.k \in {"U16", "I16"} -> ArithInfo(typ, 1, 16, "I16", "U16")
      [] typ.k \in {"U32", "I32"} -> ArithInfo(typ, 2, 32, "I32", "U32")
      [] typ.k \in {"U64", "I64"} -> ArithInfo(typ, 3, 64, "I64", "U64")
      [] OTHER -> [some |-> FALSE]

\* ArithInfo::is_signed
is_signed(info) == info.typ = info.signed

\* Type::promote
promote(t) ==
    LET info == arith_info(t) IN
    IF info.some /\ info.width <= 32
    THEN IF is_signed(info) THEN Ty("I32") ELSE Ty("U32")
    ELSE t

\* Type::decay_to_ptr
decay_to_ptr(t) == IF t.k = "Array" THEN Pointer(t.typ) ELSE t

\* Result<Type, CompileError>
TypOk(t) == [ok |-> TRUE, typ |-> t, err |-> ""]
TypErr(e) == [ok |-> FALSE, typ |-> Ty("Unknown"), err |-> e]

\* the arms of usual_arith_conv for promoted operands of infos li and ri
common_typ(lhs, rhs, li, ri) ==
    IF ~(li.some /\ ri.some) THEN TypErr("NonArithmeticOperand")
    ELSE IF lhs = rhs THEN TypOk(lhs)
    ELSE IF is_signed(li) = is_signed(ri)
    THEN IF li.rank > ri.rank THEN TypOk(lhs) ELSE TypOk(rhs)
    ELSE IF is_signed(li)
    THEN IF li.width > ri.width + 1 THEN TypOk(lhs) ELSE TypOk(li.unsigned)
    ELSE IF ri.width > li.width + 1 THEN TypOk(rhs) ELSE TypOk(ri.unsigned)

\* usual_arith_conv
usual_arith_conv(lhs, rhs) ==
    common_typ(promote(lhs), promote(rhs), arith_info(promote(lhs)), arith_info(promote(rhs)))

(***************************************************************************)
(* The C expression interpreter: values.  A scalar holds a 64-bit word,    *)
(* kept as its eight little-endian bytes (two's complement for I64Scalar). *)
(***************************************************************************)
\* i64::MIN, the one value whose negation overflows
MinI64 == Zeros(7) \o <<128>>

U64Scalar(w) == [tag |-> "U64Scalar", w |-> w]
I64Scalar(w) == [tag |-> "I64Scalar", w |-> w]
Str(bytes) == [tag |-> "Str", items |-> bytes]
\* U8Array .. I64Array: the items are kept as the bytes of their width
ArrayValue(tag, items) == [tag |-> tag, items |-> items]
Variable(id) == [tag |-> "Variable", id |-> id]
\* Addr(ScratchBox): store is where the box lives, "Scratch" or "Arc"
Addr(store, v) == [tag |-> "Addr", store |-> store, inner |-> v]
Bitmap(id) == [tag |-> "Bitmap", id |-> id]
Unknown == [tag |-> "Unknown"]

is_scalar(v) == v.tag \in {"U64Scalar", "I64Scalar"}

\* Result<Value, EvalError>, and a panic of the evaluation
Ok(v) == [st |-> "ok", v |-> v, err |-> ""]
Err(e) == [st |-> "err", v |-> Unknown, err |-> e]
Panicked == [st |-> "panic", v |-> Unknown, err |-> ""]

\* the closure convert_arith(dst) returns, applied to the result r
conv(dst, r) ==
    IF r.st # "ok" THEN r
    ELSE IF ~is_scalar(r.v) THEN Err("IllegalType")
    ELSE
    CASE dst.k \in {"Bool", "U8"} -> Ok(U64Scalar(as_unsigned(r.v.w, 1)))
      [] dst.k = "I8" -> Ok(I64Scalar(as_signed(r.v.w, 1)))
      [] dst.k = "U16" -> Ok(U64Scalar(as_unsigned(r.v.w, 2)))
      [] dst.k = "I16" -> Ok(I64Scalar(as_signed(r.v.w, 2)))
      [] dst.k = "U32" -> Ok(U64Scalar(as_unsigned(r.v.w, 4)))
      [] dst.k = "I32" -> Ok(I64Scalar(as_signed(r.v.w, 4)))
      [] dst.k = "U64" -> Ok(U64Scalar(r.v.w))
      [] dst.k = "I64" -> Ok(I64Scalar(r.v.w))
      [] OTHER -> r

\* convert_arith(dst): the converter to dst, or NonArithmeticOperand
convert_arith(dst) ==
    IF arith_info(dst).some THEN [ok |-> TRUE, typ |-> resolve_wrapper(dst), err |-> ""]
    ELSE [ok |-> FALSE, typ |-> Ty("Unknown"), err |-> "NonArithmeticOperand"]

\* Value::into_static: Err(self) for a bitmap or a sockaddr, also under Addr
RECURSIVE into_static(_)
into_static(v) ==
    CASE v.tag \in {"Bitmap", "SockAddr"} -> [ok |-> FALSE, v |-> v]
      [] v.tag = "Addr" ->
            IF into_static(v.inner).ok
            THEN [ok |-> TRUE, v |-> Addr("Arc", into_static(v.inner).v)]
            ELSE [ok |-> FALSE, v |-> into_static(v.inner).v]
      [] OTHER -> [ok |-> TRUE, v |-> v]

(***************************************************************************)
(* The environments of the interpreter, after the TestEnv of the tests: an *)
(* environment is at the Compile or at the Run stage; the fields of the    *)
(* event are known at both stages, or at the Run stage only.               *)
(***************************************************************************)
HelloWorld == <<104, 101, 108, 108, 111, 32, 119, 111, 114, 108, 100>>

Fields == {"runtime_u32_field", "runtime_zero_field", "u32_field", "u32_array_field",
           "i8_array_field", "empty_array_field", "str_field", "empty_str_field",
           "bitmap_field"}

\* CompileEnv::field_typ
field_typ(id) ==
    CASE id \in {"runtime_u32_field", "runtime_zero_field", "u32_field"} -> TypOk(Ty("U32"))
      [] id = "u32_array_field" -> TypOk(Array(Ty("U32"), 2))
      [] id = "i8_array_field" -> TypOk(Array(Ty("I8"), 2))
      [] id = "empty_array_field" -> TypOk(Array(Ty("U32"), 0))
      [] id \in {"str_field", "empty_str_field"} -> TypOk(Pointer(Ty("U8")))
      [] id = "bitmap_field" -> TypOk(Ty("Unknown"))
      [] OTHER -> TypErr("UnknownField")

\* the evaluator CompileEnv::field_getter returns, evaluated in env
getter(id, env) ==
    CASE id = "runtime_u32_field" ->
            IF env.stage = "Compile" THEN Err("NoEventData") ELSE Ok(U64Scalar(Word(44)))
      [] id = "runtime_zero_field" ->
            IF env.stage = "Compile" THEN Err("NoEventData") ELSE Ok(U64Scalar(Word(0)))
      [] id = "u32_field" -> Ok(U64Scalar(Word(42)))
      [] id = "u32_array_field" ->
            Ok(ArrayValue("U32Array", <<le_bytes(42, 4), le_bytes(43, 4)>>))
      [] id = "i8_array_field" -> Ok(ArrayValue("I8Array", <<<<255>>, <<3>>>>))
      [] id = "empty_array_field" -> Ok(ArrayValue("U32Array", <<>>))
      [] id = "str_field" -> Ok(Str(<<104, 105>>))
      [] id = "empty_str_field" -> Ok(Str(<<>>))
      [] id = "bitmap_field" -> Ok(Bitmap(env.stage))
      [] OTHER -> Err("NoEventData")

\* the value of a word as an index or an address: the words of the model
\* are below 2^16 or beyond any length and any address of the model (Far)
Far == 65536
small_value(w) ==
    IF SubSeq(w, 3, 8) = Zeros(6) THEN le_value(SubSeq(w, 1, 2)) ELSE Far

\* EvalEnv::deref_static
deref_static(w) ==
    CASE small_value(w) = 42 -> Ok(Str(HelloWorld))
      [] small_value(w) = 43 -> Ok(U64Scalar(Word(105)))
      [] small_value(w) = 44 -> Ok(U64Scalar(Word(257)))
      [] small_value(w) = 45 -> Ok(U64Scalar(Word(44)))
      [] OTHER -> Err("CannotDeref")

\* Err((val, err)) of Value::get
GetErr(v, e) == [st |-> "err", v |-> v, err |-> e]

\* the item of an array, made a scalar: x.clone().into()
item_scalar(tag, bytes) ==
    IF tag \in {"U8Array", "U16Array", "U32Array", "U64Array"}
    THEN U64Scalar(as_unsigned(bytes \o Zeros(8 - Len(bytes)), Len(bytes)))
    ELSE I64Scalar(as_signed(bytes \o Zeros(8 - Len(bytes)), Len(bytes)))

\* Value::get(self, env, idx)
RECURSIVE get(_, _)
get(v, idx) ==
    CASE v.tag \in {"U8Array", "I8Array", "U16Array", "I16Array", "U32Array", "I32Array",
                    "U64Array", "I64Array"} ->
            IF idx < Len(v.items) THEN Ok(item_scalar(v.tag, v.items[idx + 1]))
            ELSE GetErr(v, "OutOfBondIndex")
      [] v.tag = "Str" ->
            IF idx < Len(v.items) THEN Ok(U64Scalar(Word(v.items[idx + 1])))
            ELSE IF idx = Len(v.items) THEN Ok(U64Scalar(Word(0)))
            ELSE GetErr(v, "OutOfBondIndex")
      [] is_scalar(v) ->
            IF deref_static(v.w).st = "ok" THEN get(deref_static(v.w).v, idx)
            ELSE GetErr(v, deref_static(v.w).err)
      [] v.tag = "Addr" ->
            IF idx = 0 THEN Ok(v.inner) ELSE GetErr(v, "OutOfBondIndex")
      [] OTHER -> GetErr(v, "CannotIndexScalar")

(***************************************************************************)
(* The C expression interpreter: expressions and their types.  The ABI is  *)
(* the one of the tests: 64-bit longs.                                     *)
(***************************************************************************)
IntConstant(t, x) == [e |-> "IntConstant", typ |-> t, x |-> x]
Evaluated(t, v) == [e |-> "Evaluated", typ |-> t, value |-> v]
\* Expr::Variable(typ, id)
VariableExpr(t, id) == [e |-> "Variable", typ |-> t, id |-> id]
MemberAccess(x, member) == [e |-> "MemberAccess", expr |-> x, member |-> member]
Cast(t, x) == [e |-> "Cast", typ |-> t, expr |-> x]
Plus(x) == [e |-> "Plus", expr |-> x]
Minus(x) == [e |-> "Minus", expr |-> x]
\* Expr::Addr(expr)
AddrOf(x) == [e |-> "Addr", expr |-> x]
Deref(x) == [e |-> "Deref", expr |-> x]
Subscript(x, idx) == [e |-> "Subscript", expr |-> x, idx |-> idx]
Add(lhs, rhs) == [e |-> "Add", lhs |-> lhs, rhs |-> rhs]
And(lhs, rhs) == [e |-> "And", lhs |-> lhs, rhs |-> rhs]
Or(lhs, rhs) == [e |-> "Or", lhs |-> lhs, rhs |-> rhs]

\* the record of the event, as the parser names it
REC == VariableExpr([k |-> "Variable", id |-> "REC"], "REC")

\* the pointee of a pointer or the item of an array, or the error e
item_typ(t, e) ==
    IF ~t.ok THEN t
    ELSE IF resolve_wrapper(t.typ).k \in {"Pointer", "Array"}
    THEN TypOk(resolve_wrapper(t.typ).typ)
    ELSE TypErr(e)

\* the type of a binary arithmetic operation on operands of types lhs and rhs
binop_typ(lhs, rhs) ==
    IF usual_arith_conv(lhs, rhs).ok THEN usual_arith_conv(lhs, rhs)
    ELSE IF arith_info(lhs).some \/ arith_info(rhs).some THEN TypErr("NonArithmeticOperand")
    ELSE IF lhs = rhs THEN TypOk(lhs)
    ELSE IF lhs.k = "Pointer" /\ rhs.k = "Pointer"
            /\ resolve_wrapper(lhs.typ) = resolve_wrapper(rhs.typ)
    THEN TypOk(Pointer(lhs))
    ELSE TypErr("MismatchingOperandType")

\* Expr::typ
RECURSIVE typ(_)
typ(expr) ==
    CASE expr.e \in {"Evaluated", "Variable", "IntConstant", "Cast"} -> TypOk(expr.typ)
      [] expr.e = "Addr" ->
            IF typ(expr.expr).ok THEN TypOk(Pointer(typ(expr.expr).typ)) ELSE typ(expr.expr)
      [] expr.e = "Deref" -> item_typ(typ(expr.expr), "CannotDeref")
      [] expr.e \in {"Plus", "Minus"} ->
            IF typ(expr.expr).ok THEN TypOk(promote(typ(expr.expr).typ)) ELSE typ(expr.expr)
      [] expr.e = "MemberAccess" ->
            IF ~typ(expr.expr).ok THEN typ(expr.expr)
            ELSE IF resolve_wrapper(typ(expr.expr).typ) = [k |-> "Variable", id |-> "REC"]
            THEN field_typ(expr.member)
            ELSE TypOk(Ty("Unknown"))
      [] expr.e = "Subscript" ->
            IF ~typ(expr.idx).ok THEN typ(expr.idx)
            ELSE IF ~arith_info(typ(expr.idx).typ).some THEN TypErr("NonArithmeticOperand")
            ELSE item_typ(typ(expr.expr), "NotAnArray")
      [] expr.e \in {"And", "Or"} -> TypOk(Ty("I32"))
      [] expr.e = "Add" ->
            IF ~typ(expr.lhs).ok THEN typ(expr.lhs)
            ELSE IF ~typ(expr.rhs).ok THEN typ(expr.rhs)
            ELSE binop_typ(decay_to_ptr(resolve_wrapper(typ(expr.lhs).typ)),
                           decay_to_ptr(resolve_wrapper(typ(expr.rhs).typ)))

\* Type::to_arith
to_arith(t) ==
    IF resolve_wrapper(t).k \in {"Pointer", "Array"} THEN TypOk(Ty("U64"))
    ELSE IF arith_info(t).some THEN TypOk(resolve_wrapper(t))
    ELSE TypErr("NonArithmeticOperand")

(***************************************************************************)
(* The C expression interpreter: evaluators.  A compiled evaluator is a    *)
(* closure; the model keeps what the closure captured (f names the closure *)
(* and the other fields are its captures) and eval applies it to an        *)
(* environment [stage, overflow_checks].                                   *)
(***************************************************************************)
\* move |_| value.clone(), where value is a Result
ConstEval(r) == [f |-> "value", r |-> r]

\* Result<Box<dyn Evaluator>, CompileError>, and a panic of the compilation
Compiled(ev) == [st |-> "ok", ev |-> ev, err |-> ""]
CompileErr(e) == [st |-> "err", ev |-> ConstEval(Err(e)), err |-> e]
CompilePanic == [st |-> "panic", ev |-> ConstEval(Panicked), err |-> ""]

\* x + y on the bytes of two words, with the carry as a ninth byte
wide_add(x, y) == add_carry(x \o <<0>>, y \o <<0>>, 0)

\* the negate! macro of the Minus arm, conv being the converter to dst:
\* -x on an i64 overflows for i64::MIN, which panics when the build checks
\* overflows and wraps otherwise
negate(dst, r, overflow_checks) ==
    IF r.st # "ok" THEN r
    ELSE IF ~is_scalar(r.v) THEN Err("IllegalType")
    ELSE IF r.v.w = MinI64
    THEN IF overflow_checks THEN Panicked ELSE conv(dst, Ok(I64Scalar(MinI64)))
    ELSE conv(dst, Ok(I64Scalar(wrapping_neg(r.v.w))))

\* the closure of the Addr arm, applied to the result r of the inner evaluator
addr_of(r) == IF r.st # "ok" THEN r ELSE Ok(Addr("Scratch", r.v))

\* the deref! macro: the item 0 of the value, or the value itself when
\* Value::get fails
deref(r) ==
    IF r.st # "ok" THEN r
    ELSE IF get(r.v, 0).st = "ok" THEN Ok(get(r.v, 0).v)
    ELSE Ok(get(r.v, 0).v)

\* convert_arith(typ).unwrap_or(Box::new(|x| Ok(x))), applied to r
conv_or_keep(dst, r) ==
    IF convert_arith(dst).ok THEN conv(convert_arith(dst).typ, r) ELSE r

\* the run-time arm of Subscript: ri is the result of the index, evaluated
\* first, and re the result of the indexed expression
index(ri, re) ==
    IF ri.st # "ok" THEN ri
    ELSE IF ~is_scalar(ri.v) THEN Err("IllegalType")
    ELSE IF ri.v.tag = "I64Scalar" /\ is_negative(ri.v.w) THEN Err("OutOfBondIndex")
    ELSE IF re.st # "ok" THEN re
    ELSE IF get(re.v, small_value(ri.v.w)).st = "ok" THEN Ok(get(re.v, small_value(ri.v.w)).v)
    ELSE Err(get(re.v, small_value(ri.v.w)).err)

\* the closure of comp! for ((x != 0) && (y != 0)).into() and for
\* ((x != 0) || (y != 0)).into(): l and r are the converted results of the
\* operands, l being computed first
logical(op, l, r) ==
    IF l.st # "ok" THEN l
    ELSE IF r.st # "ok" THEN r
    ELSE IF is_scalar(l.v) /\ is_scalar(r.v) /\ l.v.tag = r.v.tag
    THEN IF op = "And"
         THEN Ok(I64Scalar(Word(IF l.v.w # Zeros(8) /\ r.v.w # Zeros(8) THEN 1 ELSE 0)))
         ELSE Ok(I64Scalar(Word(IF l.v.w # Zeros(8) \/ r.v.w # Zeros(8) THEN 1 ELSE 0)))
    ELSE Err("IllegalType")

\* the closure of binop! for |x, y| x + y: l and r are the converted
\* results of the operands, l being computed first
add(l, r, overflow_checks) ==
    IF l.st # "ok" THEN l
    ELSE IF r.st # "ok" THEN r
    ELSE IF l.v.tag = "U64Scalar" /\ r.v.tag = "U64Scalar"
    THEN IF wide_add(l.v.w, r.v.w)[9] # 0 /\ overflow_checks THEN Panicked
         ELSE Ok(U64Scalar(wrapping_add(l.v.w, r.v.w)))
    ELSE IF l.v.tag = "I64Scalar" /\ r.v.tag = "I64Scalar"
    THEN IF is_negative(l.v.w) = is_negative(r.v.w)
            /\ is_negative(wrapping_add(l.v.w, r.v.w)) # is_negative(l.v.w)
            /\ overflow_checks
         THEN Panicked
         ELSE Ok(I64Scalar(wrapping_add(l.v.w, r.v.w)))
    ELSE Err("IllegalType")

RECURSIVE eval(_, _)

\* the closure of comp!: both operands are evaluated and converted, the
\* left one first, and then handed to the operator
logical_both(ev, env) ==
    logical(ev.op, conv(ev.typ, eval(ev.lhs, env)), conv(ev.typ, eval(ev.rhs, env)))

\* Evaluator::eval
eval(ev, env) ==
    CASE ev.f = "value" -> ev.r
      [] ev.f = "getter" -> getter(ev.id, env)
      [] ev.f = "conv" -> conv(ev.typ, eval(ev.inner, env))
      [] ev.f = "negate" -> negate(ev.typ, eval(ev.inner, env), env.overflow_checks)
      [] ev.f = "addr" -> addr_of(eval(ev.inner, env))
      [] ev.f = "deref" -> conv_or_keep(ev.typ, deref(eval(ev.inner, env)))
      [] ev.f = "index" -> index(eval(ev.idx, env), eval(ev.inner, env))
      [] ev.f = "add" ->
            add(conv(ev.typ, eval(ev.lhs, env)), conv(ev.typ, eval(ev.rhs, env)),
                env.overflow_checks)
      [] ev.f = "comp" -> logical_both(ev, env)

(***************************************************************************)
(* The C expression interpreter: compilation.  cenv is the environment the *)
(* expression is compiled against.                                         *)
(***************************************************************************)
\* the type convert_arith_op converts the operand to
promoted(expr) == IF typ(expr).ok THEN TypOk(promote(typ(expr).typ)) ELSE typ(expr)

\* move |x| conv(eval.eval(x)?), conv being the converter to t and c the
\* compiled operand
with_conv(t, c) ==
    IF ~t.ok THEN CompileErr(t.err)
    ELSE IF ~convert_arith(t.typ).ok THEN CompileErr(convert_arith(t.typ).err)
    ELSE IF c.st # "ok" THEN c
    ELSE Compiled([f |-> "conv", typ |-> convert_arith(t.typ).typ, inner |-> c.ev])

\* the IntConstant arm, t being typ.to_arith(abi)
int_constant(t, x) ==
    IF ~t.ok THEN CompileErr(t.err)
    ELSE IF is_signed(arith_info(t.typ))
    THEN Compiled(ConstEval(IF is_negative(x) THEN Err("CannotConvertToSigned")
                            ELSE Ok(I64Scalar(x))))
    ELSE Compiled(ConstEval(Ok(U64Scalar(x))))

\* the MemberAccess arm, x being the simplified expression
member_getter(x, member) ==
    IF (x.e = "Variable" /\ x.id = "REC")
       \/ (x.e = "Evaluated" /\ x.value = Variable("REC"))
    THEN IF member \in Fields THEN Compiled([f |-> "getter", id |-> member])
         ELSE CompileErr("UnknownField")
    ELSE CompileErr("CannotHandleExpr")

\* the Minus arm: t is the promoted type of the operand, c the compiled
\* operand and r its value in the compile environment
minus(t, c, r, overflow_checks) ==
    IF ~t.ok THEN CompileErr(t.err)
    ELSE IF ~convert_arith(t.typ).ok THEN CompileErr(convert_arith(t.typ).err)
    ELSE IF c.st # "ok" THEN c
    ELSE IF r.st = "panic" THEN CompilePanic
    ELSE IF r.st = "err"
    THEN Compiled([f |-> "negate", typ |-> convert_arith(t.typ).typ, inner |-> c.ev])
    ELSE IF negate(convert_arith(t.typ).typ, r, overflow_checks).st = "panic" THEN CompilePanic
    ELSE Compiled(ConstEval(negate(convert_arith(t.typ).typ, r, overflow_checks)))

\* the Addr arm
addr(c) == IF c.st # "ok" THEN c ELSE Compiled([f |-> "addr", inner |-> c.ev])

\* the Subscript arm: ci and ce are the compiled index and expression, ri
\* the value of the index in the compile environment, t the type of the
\* expression
subscript(ci, ce, ri, t) ==
    IF ci.st # "ok" THEN ci
    ELSE IF ce.st # "ok" THEN ce
    ELSE IF ri.st = "panic" THEN CompilePanic
    ELSE IF ri.st = "ok" /\ is_scalar(ri.v) /\ ri.v.w = Zeros(8)
    THEN IF ~t.ok THEN CompileErr(t.err)
         ELSE IF resolve_wrapper(t.typ).k \in {"Pointer", "Array"}
         THEN Compiled([f |-> "deref", typ |-> resolve_wrapper(t.typ).typ, inner |-> ce.ev])
         ELSE CompileErr("CannotHandleExpr")
    ELSE Compiled([f |-> "index", idx |-> ci.ev, inner |-> ce.ev])

\* binop!: cl and cr are the compiled operands, tl and tr their types
binop(cl, cr, tl, tr) ==
    IF cl.st # "ok" THEN cl
    ELSE IF cr.st # "ok" THEN cr
    ELSE IF ~tl.ok THEN CompileErr(tl.err)
    ELSE IF ~tr.ok THEN CompileErr(tr.err)
    ELSE IF ~usual_arith_conv(tl.typ, tr.typ).ok
    THEN CompileErr(usual_arith_conv(tl.typ, tr.typ).err)
    ELSE Compiled([f |-> "add", typ |-> usual_arith_conv(tl.typ, tr.typ).typ,
                   lhs |-> cl.ev, rhs |-> cr.ev])

\* the comp! macro for And and Or: cl and cr are the compiled operands, tl
\* and tr their types
comp(op, cl, cr, tl, tr) ==
    IF cl.st # "ok" THEN cl
    ELSE IF cr.st # "ok" THEN cr
    ELSE IF ~tl.ok THEN CompileErr(tl.err)
    ELSE IF ~to_arith(tl.typ).ok THEN CompileErr(to_arith(tl.typ).err)
    ELSE IF ~tr.ok THEN CompileErr(tr.err)
    ELSE IF ~to_arith(tr.typ).ok THEN CompileErr(to_arith(tr.typ).err)
    ELSE IF ~usual_arith_conv(to_arith(tl.typ).typ, to_arith(tr.typ).typ).ok
    THEN CompileErr(usual_arith_conv(to_arith(tl.typ).typ, to_arith(tr.typ).typ).err)
    ELSE Compiled([f |-> "comp", op |-> op,
                   typ |-> usual_arith_conv(to_arith(tl.typ).typ, to_arith(tr.typ).typ).typ,
                   lhs |-> cl.ev, rhs |-> cr.ev])

\* a folding that replaces the evaluator by its value in the compile
\* environment whatever the value is
fold_any_value(c, r) ==
    IF c.st # "ok" THEN c
    ELSE IF r.st = "panic" THEN CompilePanic
    ELSE IF r.st = "ok" THEN Compiled(ConstEval(Ok(r.v)))
    ELSE c

\* the end of _compile: the evaluator c is replaced by a closure that clones
\* the value r it has in the compile environment, if it has one that can
\* be made static
fold(c, r) ==
    IF c.st # "ok" THEN c
    ELSE IF r.st = "panic" THEN CompilePanic
    ELSE IF r.st = "ok" /\ into_static(r.v).ok THEN Compiled(ConstEval(Ok(into_static(r.v).v)))
    ELSE c

\* Expr::_do_simplify
do_simplify(expr, c, r) ==
    IF c.st = "ok" /\ typ(expr).ok /\ r.st = "ok" /\ into_static(r.v).ok
    THEN Evaluated(typ(expr).typ, into_static(r.v).v)
    ELSE expr

\* the pointer arm of Cast, from a pointer or an array of from to a pointer
\* of to: the expression that is compiled instead, or the error
pointer_cast(to, from, expr) ==
    IF to = from \/ to.k = "Void" THEN [ok |-> TRUE, expr |-> expr]
    ELSE IF arith_info(from).some /\ from.k \notin {"Typedef", "Enum"}
            /\ to.k \in {"Bool", "U8", "I8"}
    THEN [ok |-> TRUE, expr |-> AddrOf(Cast(to, Deref(expr)))]
    ELSE [ok |-> FALSE, expr |-> expr]

RECURSIVE _compile(_, _)
RECURSIVE compile_node(_, _)
RECURSIVE cast(_, _, _, _)
RECURSIVE _simplify(_, _)

\* the Cast arm: to is the type of the cast and from the type of expr,
\* both decayed and resolved
cast(to, from, expr, cenv) ==
    IF to = from THEN _compile(expr, cenv)
    ELSE IF to.k = "Pointer" /\ expr.e = "Cast" /\ expr.typ.k = "Pointer"
    THEN _compile(Cast(to, expr.expr), cenv)
    ELSE IF to.k = "Pointer" /\ from.k \in {"Pointer", "Array"}
    THEN IF pointer_cast(resolve_wrapper(to.typ), resolve_wrapper(from.typ), expr).ok
         THEN _compile(pointer_cast(resolve_wrapper(to.typ), resolve_wrapper(from.typ),
                                    expr).expr, cenv)
         ELSE CompileErr("IncompatiblePointerCast")
    ELSE with_conv(to_arith(to), _compile(expr, cenv))

\* the match of Expr::_compile
compile_node(expr, cenv) ==
    CASE expr.e = "Evaluated" -> Compiled(ConstEval(Ok(expr.value)))
      [] expr.e = "Variable" -> Compiled(ConstEval(Ok(Variable(expr.id))))
      [] expr.e = "MemberAccess" -> member_getter(_simplify(expr.expr, cenv), expr.member)
      [] expr.e = "IntConstant" -> int_constant(to_arith(expr.typ), expr.x)
      [] expr.e = "Cast" ->
            IF ~typ(expr.expr).ok THEN CompileErr(typ(expr.expr).err)
            ELSE cast(resolve_wrapper(decay_to_ptr(expr.typ)),
                      resolve_wrapper(decay_to_ptr(typ(expr.expr).typ)), expr.expr, cenv)
      [] expr.e = "Plus" -> with_conv(promoted(expr.expr), _compile(expr.expr, cenv))
      [] expr.e = "Minus" ->
            minus(promoted(expr.expr), _compile(expr.expr, cenv),
                  eval(_compile(expr.expr, cenv).ev, cenv), cenv.overflow_checks)
      [] expr.e = "Addr" -> addr(_compile(expr.expr, cenv))
      [] expr.e = "Deref" -> _compile(Subscript(expr.expr, IntConstant(Ty("I32"), Word(0))), cenv)
      [] expr.e = "Subscript" ->
            subscript(_compile(expr.idx, cenv), _compile(expr.expr, cenv),
                      eval(_compile(expr.idx, cenv).ev, cenv), typ(expr.expr))
      [] expr.e = "Add" ->
            binop(_compile(expr.lhs, cenv), _compile(expr.rhs, cenv),
                  typ(expr.lhs), typ(expr.rhs))
      [] expr.e \in {"And", "Or"} ->
            comp(expr.e, _compile(expr.lhs, cenv), _compile(expr.rhs, cenv),
                 typ(expr.lhs), typ(expr.rhs))

\* Expr::_compile
_compile(expr, cenv) ==
    fold(compile_node(expr, cenv), eval(compile_node(expr, cenv).ev, cenv))

\* Expr::_simplify
_simplify(expr, cenv) ==
    do_simplify(expr, _compile(expr, cenv), eval(_compile(expr, cenv).ev, cenv))

\* Expr::compile
compile(expr, cenv) ==
    IF ~typ(expr).ok THEN CompileErr(typ(expr).err) ELSE _compile(expr, cenv)

(***************************************************************************)
(* The expressions the interpreter is run on, and its runs: an expression  *)
(* is compiled against the environment at the Compile stage, and the       *)
(* evaluator is then applied to environments at either stage.              *)
(***************************************************************************)
MaxEvals == 2

ArithTypes == {Ty(k) : k \in {"Bool", "U8", "I8", "U16", "I16", "U32", "I32", "U64", "I64"}}

\* 2^31, 2^32 - 1, 2^32 and 2^64 - 1 (2^63 has the bytes of MinI64)
Pow31 == <<0, 0, 0, 128, 0, 0, 0, 0>>
Max32 == <<255, 255, 255, 255, 0, 0, 0, 0>>
Pow32 == <<0, 0, 0, 0, 1, 0, 0, 0>>
Max64 == Ones(8)
Words == {Word(0), Word(1), Word(5), Pow31, Max32, Pow32, MinI64, Max64}

\* an unsigned long constant, and the casts of such constants
ULong(w) == IntConstant(Ty("U64"), w)
Casts == {Cast(t, ULong(w)) : t \in ArithTypes, w \in Words}
Members == {MemberAccess(REC, fld) : fld \in Fields \cup {"no_such_field"}}

Sums ==
    {Add(Cast(t1, ULong(w1)), Cast(t2, ULong(w2))) :
        t1 \in ArithTypes, t2 \in ArithTypes, w1 \in {Word(1)}, w2 \in {Word(2), Pow32}}
    \cup {Add(IntConstant(Ty("U32"), Word(1)), IntConstant(Ty("I32"), Word(2))),
          Add(IntConstant(Ty("I32"), Word(1)), IntConstant(Ty("U32"), Word(2))),
          Add(IntConstant(Ty("U32"), Max32), IntConstant(Ty("U32"), Word(1))),
          Add(ULong(Max64), ULong(Word(1))),
          Add(MemberAccess(REC, "runtime_u32_field"), IntConstant(Ty("I32"), Word(1))),
          Add(MemberAccess(REC, "str_field"), IntConstant(Ty("I32"), Word(1)))}

Negations ==
    {Minus(x) : x \in Casts} \cup {Minus(Minus(x)) : x \in Casts}
    \cup {Plus(x) : x \in Casts}
    \cup {Minus(x) : x \in Members} \cup {Minus(Minus(MemberAccess(REC, "runtime_u32_field")))}

Indexed ==
    {MemberAccess(REC, fld) :
        fld \in {"u32_array_field", "i8_array_field", "empty_array_field", "str_field",
               "empty_str_field", "u32_field", "bitmap_field"}}
    \cup {Cast(Pointer(Ty("U8")), ULong(Word(42))), Cast(Pointer(Ty("U32")), ULong(Word(44))),
          Cast(Pointer(Ty("U32")), ULong(Word(5))),
          AddrOf(MemberAccess(REC, "runtime_u32_field"))}

Indexes ==
    {IntConstant(Ty("I32"), Word(n)) : n \in 0..3}
    \cup {Minus(IntConstant(Ty("I32"), Word(1))), ULong(Max64), ULong(Word(11)),
          MemberAccess(REC, "runtime_zero_field"), MemberAccess(REC, "runtime_u32_field"),
          MemberAccess(REC, "str_field")}

Subscripts == {Subscript(x, n) : x \in Indexed, n \in Indexes} \cup {Deref(x) : x \in Indexed}

Addresses ==
    {AddrOf(x) : x \in Members}
    \cup {AddrOf(AddrOf(MemberAccess(REC, fld))) : fld \in {"u32_field", "bitmap_field"}}
    \cup {Cast(Pointer(t), AddrOf(MemberAccess(REC, fld))) :
            t \in {Ty("U8"), Ty("U32"), Ty("I32"), Ty("Void")},
            fld \in {"u32_field", "runtime_u32_field", "str_field"}}
    \cup {Cast(Pointer(Ty("U8")), Cast(Pointer(Ty("U32")), ULong(Word(42)))),
          Cast(Ty("U64"), MemberAccess(REC, "str_field")),
          Cast(Ty("I32"), MemberAccess(REC, "bitmap_field")),
          MemberAccess(ULong(Word(1)), "u32_field")}

\* the operands of && and ||: constants, fields known at run time only, an
\* item beyond the end of its array and a string
Operands ==
    {IntConstant(Ty("I32"), Word(0)), IntConstant(Ty("I32"), Word(1)), ULong(Pow32),
     MemberAccess(REC, "runtime_zero_field"), MemberAccess(REC, "runtime_u32_field"),
     Subscript(MemberAccess(REC, "u32_array_field"), MemberAccess(REC, "runtime_u32_field")),
     MemberAccess(REC, "str_field"), MemberAccess(REC, "bitmap_field")}

Logicals ==
    {And(a, b) : a \in Operands, b \in Operands} \cup {Or(a, b) : a \in Operands, b \in Operands}

Exprs ==
    Casts \cup Members \cup Sums \cup Negations \cup Subscripts \cup Addresses \cup Logicals

\* the environment of an evaluation
Env(stage, overflow_checks) == [stage |-> stage, overflow_checks |-> overflow_checks]

InitInterp ==
    /\ StreamInit({[b \in Bufs |-> <<>>]}, VisitorHeaders)
    /\ reader = NoReader
    /\ record = NoRecord
    /\ \E x \in Exprs, checks \in BOOLEAN :
          interp = [pc |-> "new", expr |-> x, overflow_checks |-> checks,
                    typ |-> TypErr(""), compiled |-> CompileErr(""), results |-> <<>>]

\* expr.compile(&cenv, &abi); typ is the type the type check of compile
\* computes for the expression
InterpCompile ==
    /\ interp.pc = "new"
    /\ interp' = [interp EXCEPT
                     !.pc = "compiled",
                     !.typ = typ(interp.expr),
                     !.compiled = compile(interp.expr, Env("Compile", interp.overflow_checks))]
    /\ UNCHANGED <<stream, reader, record>>

\* eval.eval(&env) on the compiled evaluator; a panic ends the run
InterpEval(stage) ==
    /\ interp.pc = "compiled"
    /\ interp.compiled.st = "ok"
    /\ Len(interp.results) < MaxEvals
    /\ \A k \in 1..Len(interp.results) : interp.results[k].r.st # "panic"
    /\ interp' = [interp EXCEPT
                     !.results = Append(@, [stage |-> stage,
                                            r |-> eval(interp.compiled.ev,
                                                       Env(stage, interp.overflow_checks))])]
    /\ UNCHANGED <<stream, reader, record>>

NextInterp == InterpCompile \/ \E stage \in {"Compile", "Run"} : InterpEval(stage)

SpecInterp == InitInterp /\ [][NextInterp]_vars

\* the runs of the interpreter that have compiled their expression
HasCompiled == interp.pc = "compiled"
\* the results of the evaluations of the run
Results == {interp.results[k] : k \in 1..Len(interp.results)}

\* a sum of two operands of arithmetic types has been compiled
SumOfArithmetic ==
    /\ HasCompiled
    /\ interp.expr.e = "Add"
    /\ typ(interp.expr.lhs).ok /\ arith_info(typ(interp.expr.lhs).typ).some
    /\ typ(interp.expr.rhs).ok /\ arith_info(typ(interp.expr.rhs).typ).some

Rank(t) == arith_info(t).rank
Width(t) == arith_info(t).width
IsSignedType(t) == t.k \in {"I8", "I16", "I32", "I64"}
Larger(a, b) == IF a > b THEN a ELSE b

\* what C15 says of the result type res of operands promoted to l and r
ByRank(l, r, res) ==
    /\ Rank(l) # Rank(r) => Rank(res) = Larger(Rank(l), Rank(r))
    /\ IsSignedType(l) /\ ~IsSignedType(r) =>
          IF Width(l) > Width(r) THEN res = l ELSE ~IsSignedType(res)
    /\ IsSignedType(r) /\ ~IsSignedType(l) =>
          IF Width(r) > Width(l) THEN res = r ELSE ~IsSignedType(res)

(***************************************************************************)
(* C15: usual_arith_conv picks the common type by rank after promotion:    *)
(* for every pair of arithmetic operand types, when the promoted ranks     *)
(* differ the rank of the wider type is the rank of the result; when the   *)
(* signedness differs the signed type is chosen only if it is strictly     *)
(* wider than the unsigned one, otherwise the result is unsigned; 1u + 2   *)
(* and 1 + 2u evaluate to U64Scalar(3).                                    *)
(***************************************************************************)
C15_CommonTypeByRank ==
    SumOfArithmetic =>
       /\ interp.typ.ok
       /\ ByRank(promote(typ(interp.expr.lhs).typ), promote(typ(interp.expr.rhs).typ),
                 interp.typ.typ)
       /\ interp.expr \in {Add(IntConstant(Ty("U32"), Word(1)), IntConstant(Ty("I32"), Word(2))),
                           Add(IntConstant(Ty("I32"), Word(1)), IntConstant(Ty("U32"), Word(2)))}
             => \A x \in Results : x.r = Ok(U64Scalar(Word(3)))

\* the value of the cast of a constant to an arithmetic type, as a word
CastWord(x) ==
    IF IsSignedType(x.typ) THEN as_signed(x.expr.x, Width(x.typ) \div 8)
    ELSE as_unsigned(x.expr.x, Width(x.typ) \div 8)

\* r is the signed scalar -x, for the signed 64-bit number of word w
IsNegationOf(r, w) ==
    /\ r.st = "ok"
    /\ r.v.tag = "I64Scalar"
    /\ wrapping_add(r.v.w, w) = Zeros(8)
    /\ w # Zeros(8) => is_negative(r.v.w) # is_negative(w)

\* the run compiles its expression and every evaluation satisfies P
EvaluatesTo(P(_)) == interp.compiled.st = "ok" /\ \A x \in Results : P(x.r)

C16_Unsigned(r) ==
    r = Ok(U64Scalar(as_unsigned(wrapping_neg(CastWord(interp.expr.expr)), 4)))
C16_Twice(r) == r = Ok(U64Scalar(CastWord(interp.expr.expr.expr)))
C16_Signed(r) == IsNegationOf(r, CastWord(interp.expr.expr))

(***************************************************************************)
(* C16: unary minus on an unsigned operand wraps at the promoted width:    *)
(* for every unsigned 32-bit value x, -x evaluates to                      *)
(* U64Scalar((2^32 - x) mod 2^32) and -(-x) evaluates to U64Scalar(x); for *)
(* a signed operand, -x evaluates to I64Scalar(-x).                        *)
(***************************************************************************)
C16_MinusNegates ==
    HasCompiled /\ interp.expr.e = "Minus" =>
       /\ interp.expr.expr \in Casts /\ interp.expr.expr.typ = Ty("U32")
             => EvaluatesTo(C16_Unsigned)
       /\ interp.expr.expr.e = "Minus" /\ interp.expr.expr.expr \in Casts
          /\ interp.expr.expr.expr.typ = Ty("U32")
             => EvaluatesTo(C16_Twice)
       /\ interp.expr.expr \in Casts /\ IsSignedType(interp.expr.expr.typ)
             => EvaluatesTo(C16_Signed)

\* the fields that hold an array or a string
ArrayFields ==
    {"u32_array_field", "i8_array_field", "empty_array_field", "str_field", "empty_str_field"}

\* the indexes whose number is known: constants, -1, and the fields known at
\* the Run stage
NumberIndexes ==
    {x \in Indexes : x.e \in {"IntConstant", "Minus"}}
    \cup {MemberAccess(REC, "runtime_zero_field"), MemberAccess(REC, "runtime_u32_field")}

IndexNumber(x) ==
    CASE x.e = "IntConstant" -> small_value(x.x)
      [] x.e = "Minus" -> 0 - small_value(x.expr.x)
      [] x = MemberAccess(REC, "runtime_zero_field") -> 0
      [] OTHER -> 44

\* what C17 says e[n] is, for the array or string v
Indexing(v, n) ==
    IF n >= 0 /\ n < Len(v.items)
    THEN Ok(IF v.tag = "Str" THEN U64Scalar(Word(v.items[n + 1]))
            ELSE item_scalar(v.tag, v.items[n + 1]))
    ELSE IF v.tag = "Str" /\ n = Len(v.items) THEN Ok(U64Scalar(Word(0)))
    ELSE Err("OutOfBondIndex")

\* the run indexes an array or a string field with idx
IndexesField(e, idx) ==
    /\ HasCompiled
    /\ e.e = "MemberAccess" /\ e.expr = REC /\ e.member \in ArrayFields
    /\ idx \in NumberIndexes

\* the evaluations of the run at the Run stage, where every field is known
RunResults == {x \in Results : x.stage = "Run"}

\* every evaluation of e[idx] at the Run stage is what C17 says
BoundsChecked(e, idx) ==
    IndexesField(e, idx) =>
       /\ interp.compiled.st = "ok"
       /\ \A x \in RunResults :
             x.r = Indexing(getter(e.member, Env("Run", interp.overflow_checks)).v,
                            IndexNumber(idx))

(***************************************************************************)
(* C17: Subscript is bounds-checked: for every array or string value and   *)
(* every index i, e[i] is the item i when 0 <= i < len, the NUL terminator *)
(* U64Scalar(0) when e is a Str and i = len, and otherwise (negative i,    *)
(* i >= len for an array, i > len for a Str, an index that constant-folds  *)
(* to 0 on an empty array included) fails with OutOfBondIndex.             *)
(***************************************************************************)
C17_SubscriptBoundsChecked ==
    /\ interp.pc # "none" /\ interp.expr.e = "Subscript"
          => BoundsChecked(interp.expr.expr, interp.expr.idx)
    /\ interp.pc # "none" /\ interp.expr.e = "Deref"
          => BoundsChecked(interp.expr.expr, IntConstant(Ty("I32"), Word(0)))

\* a bitmap or a sockaddr, or the address of one
RECURSIVE NeedsEventData(_)
NeedsEventData(v) ==
    CASE v.tag \in {"Bitmap", "SockAddr"} -> TRUE
      [] v.tag = "Addr" -> NeedsEventData(v.inner)
      [] OTHER -> FALSE

\* the value v, owned by the evaluator rather than by the scratch allocator
RECURSIVE Owned(_)
Owned(v) == IF v.tag = "Addr" THEN Addr("Arc", Owned(v.inner)) ELSE v

\* the environment the run compiles against
CompileEnvOfRun == Env("Compile", interp.overflow_checks)
\* the evaluator of the expression of the run before any folding of it
NodeOfRun == compile_node(interp.expr, CompileEnvOfRun).ev
\* the value of that evaluator in the compile environment
NodeAtCompile == eval(NodeOfRun, CompileEnvOfRun)

(***************************************************************************)
(* C18: constant folding replaces the evaluator of a compiled node by one  *)
(* that returns a constant only when the evaluation of the node against    *)
(* the compile environment succeeds and its value can be made self-owned   *)
(* (never a Bitmap or a SockAddr, nor an Addr of one); otherwise the       *)
(* evaluator is kept and is evaluated against the environment of each eval *)
(* call, so that &REC->runtime_u32_field is at run time the address of 44. *)
(***************************************************************************)
C18_FoldsOnlyOwnedValues ==
    HasCompiled /\ interp.compiled.st = "ok" =>
       /\ IF NodeAtCompile.st = "ok" /\ ~NeedsEventData(NodeAtCompile.v)
          THEN /\ interp.compiled.ev = ConstEval(Ok(Owned(NodeAtCompile.v)))
               /\ \A x \in Results : x.r = Ok(Owned(NodeAtCompile.v))
          ELSE /\ interp.compiled.ev = NodeOfRun
               /\ \A x \in Results :
                     x.r = eval(NodeOfRun, Env(x.stage, interp.overflow_checks))
       /\ interp.expr = AddrOf(MemberAccess(REC, "runtime_u32_field")) =>
             \A x \in RunResults : x.r = Ok(Addr("Scratch", U64Scalar(Word(44))))

\* &REC->runtime_u32_field was not folded and has been evaluated at both
\* stages: it fails at the Compile stage and is the address of 44 at Run
C18_Witness ==
    /\ HasCompiled
    /\ interp.expr = AddrOf(MemberAccess(REC, "runtime_u32_field"))
    /\ interp.compiled.st = "ok" /\ interp.compiled.ev.f = "addr"
    /\ Len(interp.results) = 2
    /\ interp.results[1] = [stage |-> "Compile", r |-> Err("NoEventData")]
    /\ interp.results[2] = [stage |-> "Run", r |-> Ok(Addr("Scratch", U64Scalar(Word(44))))]

(***************************************************************************)
(* What the captures hold, read off their descriptions.                    *)
(***************************************************************************)
Range(seq) == {seq[k] : k \in DOMAIN seq}
EventsOf(seq) == SelectSeq(seq, LAMBDA x : x.kind = "event")
ErrorsOf(seq) == SelectSeq(seq, LAMBDA x : x.kind = "err")
OfPage(seq, k) == SelectSeq(seq, LAMBDA x : x.page = k)
OfBuffer(seq, b) == SelectSeq(seq, LAMBDA x : x.buf = b)
Items(history) == [k \in DOMAIN history |-> history[k].item]

\* the events a page holds up to its first unparsable record: the fixed
\* timestamp and the id of each
RECURSIVE WrittenEvents(_, _, _)
WrittenEvents(recs, ts, offset) ==
    IF recs = <<>> \/ Head(recs).t = "cut" THEN <<>>
    ELSE IF Head(recs).t = "te" THEN WrittenEvents(Tail(recs), ts + Head(recs).delta, offset)
    ELSE <<[ts |-> ts + Head(recs).delta + offset, id |-> Head(recs).id]>>
         \o WrittenEvents(Tail(recs), ts + Head(recs).delta, offset)

\* the same of the events a producer yielded
Seen(items) == [k \in DOMAIN items |-> [ts |-> items[k].ts, id |-> le_value(SubSeq(items[k].data, 1, 2))]]

HasCut(d) == \E k \in DOMAIN d.recs : d.recs[k].t = "cut"
\* a page that can be read and whose declared data length lies within it
Sound(d) == d.io = "ok" /\ d.size = "exact"
\* a sound page whose records all parse
WellFormed(d) == Sound(d) /\ ~HasCut(d)
Pages(b) == buffers[b].pages

\* the number of extract_page calls a producer makes when it runs to its end:
\* up to the first page that is not sound, else one past the last page
FirstUnsound(b) == {k \in DOMAIN Pages(b) : ~Sound(Pages(b)[k]) /\ \A j \in 1..(k - 1) : Sound(Pages(b)[j])}
ReadsToEnd(b) == IF FirstUnsound(b) = {} THEN Len(Pages(b)) + 1 ELSE CHOOSE k \in FirstUnsound(b) : TRUE

\* a producer that has returned has read its pages up to the first unsound one
RanToEnd(b) == prod[b].pos = "done" => Len(extracted[b]) = ReadsToEnd(b)

\* page k of buffer b has been left by the producer: a later read was made
Left(b, k) == Len(extracted[b]) > k

LexLeq(x, y) == x.ts < y.ts \/ (x.ts = y.ts /\ x.cpu <= y.cpu)
NonDecreasing(seq) == \A j, k \in DOMAIN seq : j < k => seq[j].ts <= seq[k].ts

(***************************************************************************)
(* C1.  When the events each producer yields have non-decreasing fixed     *)
(* timestamps, the events passed to the consumer are in ascending          *)
(* (fixed timestamp, cpu id) order: each is <= the next one, so of two     *)
(* events with the same timestamp the one of the lower cpu comes first.    *)
(***************************************************************************)
C1_GloballyOrdered ==
    (\A b \in Bufs : NonDecreasing(EventsOf(emitted[b])))
    => LET evs == EventsOf(Items(out)) IN
       \A j, k \in DOMAIN evs : j < k => LexLeq(evs[j], evs[k])

\* CPU0 {10, 30} and CPU1 {20, 30} (fixed by the offset) came out as
\* 10, 20, 30 (cpu 0), 30 (cpu 1)
C1_Witness ==
    /\ pc = "end"
    /\ LET evs == EventsOf(Items(out)) IN
       /\ Len(evs) = 4
       /\ [k \in 1..4 |-> <<evs[k].ts - header.ts_offset, evs[k].cpu>>]
              = <<<<10, 0>>, <<20, 1>>, <<30, 0>>, <<30, 1>>>>

(***************************************************************************)
(* C2.  Single advance: an item the merge holds, or the driver is passing  *)
(* to the callback, is the last thing its producer yielded (the producer   *)
(* has not been resumed since), and every callback ran on an item whose    *)
(* producer had not been resumed since it yielded the item.                *)
(***************************************************************************)
C2_SingleAdvance ==
    /\ \A b \in Bufs : heads[b] # None => heads[b][1].gen = steps[b]
    /\ cur # None => cur[1].gen = steps[cur[1].buf]
    /\ \A k \in DOMAIN out : out[k].valid

\* two events of one producer were consumed one after the other, the producer
\* having been resumed in between
C2_Witness ==
    \E k \in DOMAIN out :
        /\ k > 1
        /\ out[k].item.kind = "event" /\ out[k - 1].item.kind = "event"
        /\ out[k].item.buf = out[k - 1].item.buf
        /\ out[k].item.gen > out[k - 1].item.gen
        /\ \E b \in Bufs : b # out[k].item.buf /\ heads[b] # None

(***************************************************************************)
(* C3.  Errors come before any timestamp: when the merge hands out an      *)
(* event, no producer's held item is an error (an error held next to an    *)
(* event is handed out first, whatever the event's timestamp and cpu).     *)
(***************************************************************************)
C3_ErrorsFirst ==
    (cur # None /\ cur[1].kind = "event")
    => \A b \in Bufs : heads[b] # None => heads[b][1].kind # "err"

\* an error is handed out while another producer holds an event of a lower
\* cpu, written before the base timestamp of the page the error comes from
C3_Witness ==
    /\ cur # None /\ cur[1].kind = "err"
    /\ \E b \in Bufs :
          /\ heads[b] # None /\ heads[b][1].kind = "event"
          /\ heads[b][1].cpu < cur[1].cpu
          /\ heads[b][1].ts < Pages(cur[1].buf)[cur[1].page].ts + header.ts_offset


(***************************************************************************)
(* C4.  At-most-once init: init_desc is never called twice for the same    *)
(* (buffer, event id) pair, and the user data of a hot entry, which is     *)
(* what a lookup of an id that is already hot returns, is the value that   *)
(* single call produced.                                                   *)
(***************************************************************************)
C4_AtMostOnceInit ==
    /\ \A j, k \in DOMAIN init_calls : j # k => init_calls[j] # init_calls[k]
    /\ \A b \in Bufs : \A id \in DOMAIN desc_map[b].hot_map :
          /\ desc_map[b].hot_map[id] \in DOMAIN init_calls
          /\ init_calls[desc_map[b].hot_map[id]] = <<b, id>>
    /\ visitor.event_desc # None
       => visitor.event_desc[1].user
              = desc_map[visitor.buf].hot_map[visitor.event_desc[1].id]

\* a visitor got the descriptor of an id that an earlier visitor of the same
\* buffer had already looked up
C4_Witness ==
    /\ visitor.event_desc # None
    /\ \E j, k \in DOMAIN lookups :
          /\ j < k /\ k = Len(lookups)
          /\ lookups[j] = lookups[k]
          /\ lookups[k] = <<visitor.buf, visitor.event_desc[1].id>>
    /\ Len(init_calls) = 1

(***************************************************************************)
(* C5, as stated: the number of init_desc calls equals the number of       *)
(* distinct event ids looked up in the stream (counting the ids the        *)
(* header has a descriptor for).                                           *)
(***************************************************************************)
C5_AsStated ==
    Len(init_calls) = Cardinality({pr[2] : pr \in Range(lookups)} \cap header.event_descs)

(***************************************************************************)
(* C5, amended: the number of init_desc calls equals the number of         *)
(* distinct (buffer, event id) pairs looked up whose id the header has a   *)
(* descriptor for: every buffer has its own hot map.                       *)
(***************************************************************************)
C5_CallsPerBufferAndId ==
    Len(init_calls) = Cardinality({pr \in Range(lookups) : pr[2] \in header.event_descs})

\* the same id was looked up, and initialized, in both buffers
C5_Witness ==
    \E id \in header.event_descs :
        /\ <<1, id>> \in Range(init_calls)
        /\ <<2, id>> \in Range(init_calls)
        /\ Len(init_calls) = 2

(***************************************************************************)
(* The pages extract_page was given: the calls that read a page and parsed *)
(* its commit word.                                                        *)
(***************************************************************************)
PageCalls == {<<b, k>> : b \in Bufs, k \in 1..MaxPages + 1}
Called(b, k) == k \in DOMAIN extracted[b] /\ extracted[b][k].commit # <<>>
Call(b, k) == extracted[b][k]
ProducedLost(e) == e.tag = "page" /\ e.recoverable # None /\ e.recoverable[1].e = "LostEvents"
CountOf(e) == e.recoverable[1].count
\* the long-sized integer located right after the data_size bytes of page k
StoredCount(b, k) == Pages(b)[k].count

C7_LostEventsThenEvents ==
    \A b \in Bufs :
        /\ RanToEnd(b)
        /\ \A k \in DOMAIN extracted[b] :
              (Called(b, k) /\ ProducedLost(Call(b, k)))
              => LET items == OfPage(emitted[b], k) IN
                 /\ items # <<>>
                 /\ items[1].kind = "err" /\ items[1].err = Call(b, k).recoverable[1]
                 /\ \A n \in k..Len(Pages(b)) :
                       (Left(b, n) /\ WellFormed(Pages(b)[n]))
                       => Seen(EventsOf(OfPage(emitted[b], n)))
                              = WrittenEvents(Pages(b)[n].recs, Pages(b)[n].ts,
                                              header.ts_offset)

\* has_missing = 1 with the count stored: the producer yielded
\* LostEvents(buf, Some(count)), then the event of that page, then the event
\* of the next page, and returned
C7_Witness ==
    \E b \in Bufs :
        /\ prod[b].pos = "done"
        /\ Len(emitted[b]) = 3
        /\ emitted[b][1].err = LostEvents(b, Some(MaxLost))
        /\ emitted[b][2].kind = "event" /\ emitted[b][2].page = 1
        /\ emitted[b][3].kind = "event" /\ emitted[b][3].page = 2
        /\ Len(out) = 3

(***************************************************************************)
(* C8.  A page whose commit word declares more data than the page holds    *)
(* after its header is reported as an error of extract_page, and nothing   *)
(* panics on a slice that extends past the page.                           *)
(***************************************************************************)
C8_OversizeIsAnError ==
    /\ pc # "panic"
    /\ \A c \in PageCalls :
          LET b == c[1]  k == c[2]  e == Call(b, k) IN
          (Called(b, k) /\ e.data_size > e.page_size - e.consumed)
          => /\ e.tag = "err"
             /\ \E j \in DOMAIN emitted[b] :
                   emitted[b][j].page = k /\ emitted[b][j].kind = "err"

(***************************************************************************)
(* C9.  A record that fails to parse gives one error item, which is the    *)
(* last item of its page: the items of a page with such a record are the   *)
(* page's LostEvents item if it has one, the events written before the     *)
(* record, and one UnexpectedEof error; nothing written after the record   *)
(* is yielded.  The producer then goes on with the next page, whose events *)
(* are yielded.                                                            *)
(***************************************************************************)
C9_ParseErrorAbandonsPage ==
    \A b \in Bufs :
        /\ RanToEnd(b)
        /\ \A k \in DOMAIN Pages(b) :
              (Called(b, k) /\ Call(b, k).tag = "page" /\ Sound(Pages(b)[k]) /\ HasCut(Pages(b)[k]))
              => LET items == OfPage(emitted[b], k)
                     lost == IF ProducedLost(Call(b, k)) THEN 1 ELSE 0
                     written == WrittenEvents(Pages(b)[k].recs, Pages(b)[k].ts, header.ts_offset)
                     last == lost + Len(written) + 1
                 IN
                 /\ Len(items) <= last
                 /\ \A j \in DOMAIN items :
                       /\ (lost < j /\ j < last)
                          => items[j].kind = "event" /\ Seen(<<items[j]>>)[1] = written[j - lost]
                       /\ j = last
                          => items[j].kind = "err" /\ items[j].err = IoError("UnexpectedEof")
                 /\ Left(b, k) => Len(items) = last
                 /\ (k + 1 \in DOMAIN Pages(b) /\ WellFormed(Pages(b)[k + 1]) /\ Left(b, k + 1))
                    => Seen(EventsOf(OfPage(emitted[b], k + 1)))
                           = WrittenEvents(Pages(b)[k + 1].recs, Pages(b)[k + 1].ts,
                                           header.ts_offset)

\* a producer yielded the event before the bad record, the error, and then
\* the event of the next page, and returned; all three reached the consumer
C9_Witness ==
    \E b \in Bufs :
        /\ prod[b].pos = "done"
        /\ Len(Pages(b)) = 2 /\ HasCut(Pages(b)[1])
        /\ Len(emitted[b]) = 3
        /\ emitted[b][1].kind = "event" /\ emitted[b][1].page = 1
        /\ emitted[b][2].kind = "err" /\ emitted[b][2].page = 1
        /\ emitted[b][3].kind = "event" /\ emitted[b][3].page = 2
        /\ Len(out) = 3

(***************************************************************************)
(* C10.  How a page read ends a producer.  A read that fails with          *)
(* UnexpectedEof ends the producer with no item; any other failure of      *)
(* extract_page gives exactly one error item, the last item of the         *)
(* producer, and no further read.  The other producers are not affected:   *)
(* when the merged stream ends every producer has returned, having read    *)
(* its pages up to its first unsound one, and every item a producer        *)
(* yielded was passed to the consumer, in the producer's order.            *)
(***************************************************************************)
C10_PageReadOutcome ==
    /\ \A b \in Bufs : \A k \in DOMAIN extracted[b] :
          LET e == extracted[b][k] IN
          /\ k > Len(Pages(b)) => e.tag = "none"
          /\ (k <= Len(Pages(b)) /\ Pages(b)[k].io # "ok")
             => e.tag = "err" /\ e.err = IoError(Pages(b)[k].io)
          /\ e.tag = "none"
             => /\ OfPage(emitted[b], k) = <<>>
                /\ k = Len(extracted[b])
                /\ prod[b].pos = "done"
          /\ e.tag = "err"
             => /\ k = Len(extracted[b])
                /\ prod[b].pos \in {"pageerr", "done"}
                /\ OfPage(emitted[b], k) = <<emitted[b][Len(emitted[b])]>>
                /\ emitted[b][Len(emitted[b])].kind = "err"
                /\ emitted[b][Len(emitted[b])].err = e.err
    /\ pc = "end"
       => \A b \in Bufs :
             /\ prod[b].pos = "done"
             /\ RanToEnd(b)
             /\ OfBuffer(Items(out), b) = emitted[b]

\* the first read of one buffer failed with an I/O error other than
\* UnexpectedEof; the stream ended with that one error item and the two
\* events of the other buffer, whose producer ended on UnexpectedEof
C10_Witness ==
    /\ pc = "end"
    /\ \E b, c \in Bufs :
          /\ b # c
          /\ Len(extracted[b]) = 1 /\ extracted[b][1].tag = "err"
          /\ extracted[b][1].err = IoError("Other")
          /\ Len(emitted[b]) = 1
          /\ Len(EventsOf(emitted[c])) = 2
          /\ extracted[c][Len(extracted[c])].tag = "none"
          /\ Len(out) = 3 /\ out[1].item.buf = b

(***************************************************************************)
(* C11, as stated: counting the events passed to the callback, the scratch *)
(* arena is reset after every 16th event and at no other time: the item    *)
(* of index k is followed by a reset exactly when it is an event and the   *)
(* number of events up to it is a multiple of 16.                          *)
(***************************************************************************)
EventsUpTo(k) == Cardinality({j \in 1..k : out[j].item.kind = "event"})

C11_AsStated ==
    \A k \in 1..Len(out) :
        (out[k].index \in Range(resets))
            <=> (out[k].item.kind = "event" /\ EventsUpTo(k) % 16 = 0)

(***************************************************************************)
(* C11, amended: the arena is reset exactly after the event items whose    *)
(* zero-based index in the merged stream, error items counted, is a        *)
(* multiple of 16 (so after the first item when it is an event); an error  *)
(* item never resets it, and the resets are recorded in stream order.      *)
(***************************************************************************)
C11_ResetAtEventIndexes ==
    /\ \A k \in 1..Len(out) :
          /\ out[k].index = k - 1
          /\ (out[k].index \in Range(resets))
                <=> (out[k].item.kind = "event" /\ (k - 1) % 16 = 0)
    /\ \A r \in Range(resets) : r < Len(out)
    /\ \A a, b \in 1..Len(resets) : a < b => resets[a] < resets[b]

\* a stream with error items where the items of index 0 and 16 are events
\* (two resets), and one where the item of index 16 is an error
C11_Witness ==
    /\ pc = "end"
    /\ Len(out) > 17
    /\ resets = <<0, 16>>
    /\ \E k \in 1..16 : out[k].item.kind = "err"

(***************************************************************************)
(* What a container holds, read off its description.                       *)
(***************************************************************************)
\* the bytes of the chunks a..b of a container
RECURSIVE ChunkBytes(_, _, _)
ChunkBytes(lens, a, b) ==
    IF a > b \/ a > Len(lens) THEN <<>>
    ELSE [j \in 1..lens[a] |-> 16 * a + j - 1] \o ChunkBytes(lens, a + 1, b)

\* the concatenation of the decompressed chunks the container declares
Content(c) == ChunkBytes(c.lens, 1, c.declared)

\* the container holds the chunks it declares
HoldsDeclared(c) == c.declared <= Len(c.lens)

RECURSIVE Requested(_, _)
Requested(reads, k) == IF k = 0 THEN 0 ELSE reads[k].count + Requested(reads, k - 1)

(***************************************************************************)
(* C12.  Over a container that holds the chunks it declares, as long as    *)
(* the read(count) calls made so far ask in total for no more than the     *)
(* decompressed length, every read succeeds and returns the next count     *)
(* bytes of the concatenation of the decompressed chunks: consecutive      *)
(* slices without overlap or gap, as a reader over the uncompressed bytes  *)
(* would return, however the reads straddle the chunks.                    *)
(***************************************************************************)
C12_ReadsAreTheConcatenation ==
    (reader.st = "ready" /\ HoldsDeclared(reader.container)
        /\ Requested(reader.reads, Len(reader.reads)) <= Len(Content(reader.container)))
    => \A k \in 1..Len(reader.reads) :
          /\ reader.reads[k].ok
          /\ reader.reads[k].bytes =
                 SubSeq(Content(reader.container), Requested(reader.reads, k - 1) + 1,
                        Requested(reader.reads, k))

\* a read of one byte, then a read of three bytes that takes the rest of the
\* first chunk, an empty chunk and the start of the third chunk
C12_Witness ==
    /\ reader.st = "ready"
    /\ reader.container = [declared |-> 3, lens |-> <<2, 0, 2>>]
    /\ Len(reader.reads) = 2
    /\ reader.reads[1].count = 1 /\ reader.reads[2].count = 3
    /\ reader.reads[2].ok /\ reader.reads[2].bytes = <<17, 48, 49>>

(***************************************************************************)
(* C13.  The reader never pulls more chunks from the inner reader than the *)
(* container declares, also when the inner reader holds more.  Over a      *)
(* container that holds the chunks it declares, a read succeeds exactly    *)
(* when the unread bytes of the buffer and the declared chunks not pulled  *)
(* yet hold count bytes, and a read they cannot satisfy fails with         *)
(* UnexpectedEof.                                                          *)
(***************************************************************************)
C13_DeclaredCountTerminates ==
    reader.st \in {"ready", "failed"} =>
        /\ reader.self.pulled <= reader.container.declared
        /\ reader.st = "ready" =>
              reader.self.pulled + reader.self.remaining_chunks = reader.container.declared
        /\ HoldsDeclared(reader.container) =>
              \A k \in 1..Len(reader.reads) :
                  LET rd == reader.reads[k]
                      left == Len(ChunkBytes(reader.container.lens, rd.pulled + 1,
                                             reader.container.declared))
                  IN
                  /\ rd.ok <=> rd.count <= rd.unread + left
                  /\ ~rd.ok => rd.io = "UnexpectedEof"

\* a read failed with UnexpectedEof once the declared chunks were pulled,
\* while the inner reader still holds a chunk
C13_Witness ==
    /\ reader.st = "ready"
    /\ reader.container.declared = 1
    /\ Len(reader.container.lens) = 2
    /\ reader.self.pulled = 1
    /\ reader.self.inner # <<>>
    /\ \E k \in 1..Len(reader.reads) :
          ~reader.reads[k].ok /\ reader.reads[k].io = "UnexpectedEof"

(***************************************************************************)
(* C14, as stated: a visitor looks its descriptor up lazily and at most    *)
(* once, however many times it is asked for it.                            *)
(***************************************************************************)
C14_AsStated ==
    /\ visitor.calls = 0 => visitor.lookups = 0
    /\ visitor.lookups <= 1

(***************************************************************************)
(* C14, amended: a visitor looks its descriptor up lazily, and once a      *)
(* lookup has found it every later call returns the memoized entry without *)
(* another lookup: a visitor holding an entry made exactly one lookup, and *)
(* the entry is that of its event's id.  A lookup that finds no descriptor *)
(* is not memoized: a visitor without an entry made one lookup per call.   *)
(***************************************************************************)
C14_MemoizedOnceFound ==
    /\ visitor.calls = 0 => visitor.lookups = 0 /\ visitor.event_desc = None
    /\ visitor.event_desc # None =>
          /\ visitor.lookups = 1
          /\ visitor.event_desc[1].id = event_id(visitor.data).val
    /\ visitor.event_desc = None => visitor.lookups = visitor.calls

\* a visitor asked MaxCalls times for a descriptor that the header has
C14_Witness ==
    /\ visitor.calls = MaxCalls
    /\ visitor.event_desc # None
    /\ visitor.lookups = 1

\* every event id of the header is in exactly one of the two maps of every
\* buffer, and the maps hold nothing else
Partitioned ==
    \A b \in Bufs :
       /\ desc_map[b].cold_map \cap DOMAIN desc_map[b].hot_map = {}
       /\ desc_map[b].cold_map \cup DOMAIN desc_map[b].hot_map = header.event_descs

\* what a step that looks the id of the pair pr = <<buffer, id>> up does
LookedUp(pr) ==
    IF pr[2] \in header.event_descs
    THEN IF pr[2] \in desc_map[pr[1]].cold_map
         THEN /\ pr[2] \notin desc_map'[pr[1]].cold_map
              /\ pr[2] \in DOMAIN desc_map'[pr[1]].hot_map
              /\ init_calls' = Append(init_calls, pr)
              /\ visitor'.event_desc # None
         ELSE /\ desc_map' = desc_map
              /\ init_calls' = init_calls
              /\ visitor'.event_desc # None
    ELSE /\ desc_map' = desc_map
         /\ init_calls' = init_calls
         /\ visitor'.event_desc = None

(***************************************************************************)
(* C19: the partition invariant of EventDescMap: after any sequence of     *)
(* lookups (of known ids, of repeated ids and of ids absent from the       *)
(* header) every event id of the header is in exactly one of cold_map and  *)
(* hot_map; the first lookup of a known id moves it from cold to hot, and  *)
(* the lookup of an unknown id returns not-found and leaves both maps      *)
(* unchanged without calling init_desc.                                    *)
(***************************************************************************)
C19_ColdHotPartition ==
    /\ []Partitioned
    /\ [][lookups' # lookups => LookedUp(lookups'[Len(lookups')])]_vars

\* a known id was looked up twice in one buffer and an unknown id was looked
\* up as well: one id is hot, the other is still cold
C19_Witness ==
    /\ \E j, k \in DOMAIN lookups :
          j < k /\ lookups[j] = lookups[k] /\ lookups[j][2] \in header.event_descs
    /\ \E k \in DOMAIN lookups : lookups[k][2] \notin header.event_descs
    /\ \E b \in Bufs : desc_map[b].cold_map # {} /\ DOMAIN desc_map[b].hot_map # {}

\* the pages that hold a valid record stream: every record is whole
ValidRecords(d) ==
    d.io = "ok" /\ d.size = "exact" /\ \A k \in DOMAIN d.recs : d.recs[k] \notin {Cut, Stub}

\* the record loops of the producer of buffer b that have ended on page k
LoopsOf(b, k) == {e \in Range(prod[b].loops) : e.page_no = k}

RECURSIVE RunningTimestamp(_, _)
RunningTimestamp(ts, recs) ==
    IF recs = <<>> THEN ts
    ELSE IF recs[Len(recs)].t = "ts" THEN recs[Len(recs)].delta
    ELSE RunningTimestamp(ts, SubSeq(recs, 1, Len(recs) - 1)) + recs[Len(recs)].delta

\* the events the producer of buffer b has yielded from pages of valid records
ValidEvents(b) ==
    {it \in Range(emitted[b]) :
        it.kind = "event" /\ ValidRecords(buffers[b].pages[it.page])}

(***************************************************************************)
(* C21: for every type of record (event, padding, time extend, absolute    *)
(* timestamp) the upper 27 bits of the record header are a delta that      *)
(* advances the running timestamp parse_record returns, the type being the *)
(* low 5 bits: the timestamp of an event is the running timestamp, advanced *)
(* by the deltas of all the records of the page up to it, plus its delta.  *)
(***************************************************************************)
C21_DeltaAdvancesTimestamp ==
    \A b \in Bufs : \A it \in ValidEvents(b) :
       it.ts = timestamp_fixer(header,
                   RunningTimestamp(buffers[b].pages[it.page].ts,
                                    SubSeq(buffers[b].pages[it.page].recs, 1, it.rec)))

(***************************************************************************)
(* One parse_record call, read off its input.                              *)
(***************************************************************************)
\* the call has returned, on a record of the given type that has its two words
Parsed(kind) ==
    /\ record.pc = "parsed"
    /\ Len(record.input) >= 8
    /\ record.input[1] % 32 = kind

\* bit n of the 64-bit value delta + (x << 27) of the record, delta being the
\* upper 27 bits of its first word and x its second word: the two do not
\* overlap, bits 0 to 26 are those of delta and bits 27 to 58 those of x
DeltaAndX(n) ==
    IF n < 27 THEN bit(SubSeq(record.input, 1, 4), n + 5)
    ELSE IF n < 59 THEN bit(SubSeq(record.input, 5, 8), n - 27)
    ELSE 0

(***************************************************************************)
(* C22: a timestamp record (type 31) with payload x sets the running       *)
(* timestamp to (delta + (x << 27)) | (old & (0xf8 << 56)): the top 5 bits *)
(* of the new timestamp are the top 5 bits of the old one and its low 59   *)
(* bits are delta + (x << 27), for every old timestamp, every delta below  *)
(* 2^27 and every 32-bit x.                                                *)
(***************************************************************************)
C22_TimestampKeepsTopBits ==
    Parsed(31) =>
       /\ record.result.tag = "ok"
       /\ record.result.rec = "Timestamp"
       /\ record.result.rest = Drop(record.input, 8)
       /\ \A n \in 59..63 : bit(record.result.ts, n) = bit(record.timestamp, n)
       /\ \A n \in 0..58 : bit(record.result.ts, n) = DeltaAndX(n)

\* a timestamp record of the largest delta and the largest x has been parsed
\* with an old timestamp whose top five bits are 01100, and one of delta 1
\* and x = 2^31 + 5 with an old timestamp of 2^59 - 1
C22_Witness ==
    /\ Parsed(31)
    /\ \/ /\ SubSeq(record.input, 1, 8) = Ones(8)
          /\ record.timestamp = <<1, 2, 3, 4, 5, 6, 7, 96>>
          /\ record.result.ts = Ones(7) \o <<103>>
       \/ /\ SubSeq(record.input, 1, 8) = <<63, 0, 0, 0, 5, 0, 0, 128>>
          /\ record.timestamp = Ones(7) \o <<7>>
          /\ record.result.ts = <<1, 0, 0, 40, 0, 0, 0, 4>>

\* the size word of the record of the call, and the bytes of payload it
\* declares: the size counts the size word itself
SizeWord == u32_len(SubSeq(record.input, 5, 8))
PayloadSize == SizeWord - 4
\* n rounded up to the next multiple of 4
AlignUp(n) == ((n + 3) \div 4) * 4

(***************************************************************************)
(* C23: the alignment rule: for an event record of explicit size (type 0)  *)
(* whose payload size is not a multiple of 4, parse_record consumes the    *)
(* payload and the padding up to the next 4-byte boundary, so that the     *)
(* next record header is read at a 4-byte-aligned offset of the page data. *)
(***************************************************************************)
C23_SizedEventConsumesPadding ==
    /\ Parsed(0)
    /\ SizeWord >= 4
    /\ PayloadSize % 4 # 0
    /\ Len(record.input) >= 8 + AlignUp(PayloadSize)
    => /\ record.result.tag = "ok"
       /\ record.result.rec = "Event"
       /\ record.result.rest = Drop(record.input, 8 + AlignUp(PayloadSize))

(***************************************************************************)
(* The events a buffer holds, read off the descriptions of its pages.      *)
(***************************************************************************)
IsEvent(r) == r.t \in {"ev", "ev0"}

\* the running timestamp after the records recs of a page of base timestamp
\* ts: an absolute timestamp record sets it (the x words of the captures are
\* zero), the delta of an event or of a time extend advances it, and a
\* padding hands it back as it was
RECURSIVE Running(_, _)
Running(ts, recs) ==
    IF recs = <<>> THEN ts
    ELSE IF recs[Len(recs)].t = "ts" THEN recs[Len(recs)].delta
    ELSE IF recs[Len(recs)].t = "pad" THEN Running(ts, SubSeq(recs, 1, Len(recs) - 1))
    ELSE Running(ts, SubSeq(recs, 1, Len(recs) - 1)) + recs[Len(recs)].delta

\* the records of a page that can be parsed: those before the first record
\* that is cut short
RECURSIVE Whole(_)
Whole(recs) ==
    IF recs = <<>> \/ Head(recs) \in {Cut, Stub} THEN <<>>
    ELSE <<Head(recs)>> \o Whole(Tail(recs))

\* the event records among the first n records of page k of buffer b, in
\* the order of the page
RECURSIVE PageEvents(_, _, _)
PageEvents(b, k, n) ==
    IF n = 0 THEN <<>>
    ELSE PageEvents(b, k, n - 1)
         \o (IF IsEvent(buffers[b].pages[k].recs[n])
             THEN <<[page |-> k, rec |-> n, id |-> buffers[b].pages[k].recs[n].id,
                     running |-> Running(buffers[b].pages[k].ts,
                                         SubSeq(buffers[b].pages[k].recs, 1, n))]>>
             ELSE <<>>)

\* the event records of the first k pages of buffer b, in file order
RECURSIVE FileEvents(_, _)
FileEvents(b, k) ==
    IF k = 0 THEN <<>>
    ELSE FileEvents(b, k - 1) \o PageEvents(b, k, Len(Whole(buffers[b].pages[k].recs)))

\* the event item is the one of the event record e
ItemOf(it, e) ==
    /\ it.page = e.page /\ it.rec = e.rec
    /\ le_value(SubSeq(it.data, 1, 2)) = e.id
    /\ it.ts = timestamp_fixer(header, e.running)

PaddedPages(b) ==
    {k \in DOMAIN buffers[b].pages :
        /\ ValidRecords(buffers[b].pages[k])
        /\ \E n \in DOMAIN buffers[b].pages[k].recs : buffers[b].pages[k].recs[n].t = "pad"}

(***************************************************************************)
(* C25: a padding record (type 29) skips length - 4 bytes after its length *)
(* word: the records that follow it in the page are found at their place.  *)
(* When it declares more than what is left of the input, what is left is   *)
(* clamped to empty and the record still parses: the page yields no parse  *)
(* error, and its record loop ends there with nothing left.                *)
(***************************************************************************)
C25_PaddingSkipsOrClamps ==
    \A b \in Bufs : \A k \in PaddedPages(b) :
       /\ \A it \in Range(emitted[b]) :
             it.page = k /\ it.kind = "err" => it.err.e = "LostEvents"
       /\ \A e \in LoopsOf(b, k) :
             /\ e.how = "end" /\ e.left = 0
             /\ Len(OfPage(EventsOf(emitted[b]), k))
                  = Len(PageEvents(b, k, Len(buffers[b].pages[k].recs)))
             /\ \A n \in DOMAIN OfPage(EventsOf(emitted[b]), k) :
                   ItemOf(OfPage(EventsOf(emitted[b]), k)[n],
                          PageEvents(b, k, Len(buffers[b].pages[k].recs))[n])
       /\ prod[b].page_no > k => LoopsOf(b, k) # {}

\* the record loops have ended of a page whose padding declares more than
\* the eight bytes left after its length word, and of a page whose padding
\* of four bytes is followed by an event, which has been yielded
C25_Witness ==
    \E b \in Bufs : \E j, k \in DOMAIN buffers[b].pages :
       /\ buffers[b].pages[j].recs = <<Ev(0, 2), Pad(LongPadding, 8)>>
       /\ buffers[b].pages[k].recs = <<Pad(8, 4), Ev(1, 2)>>
       /\ LoopsOf(b, j) # {} /\ LoopsOf(b, k) # {}
       /\ \E it \in Range(emitted[b]) : it.kind = "event" /\ it.page = k /\ it.rec = 2

\* the record loops of the producer of buffer b on page k, in order
LoopSeq(b, k) == SelectSeq(prod[b].loops, LAMBDA e : e.page_no = k)

\* the parse_record calls of a record loop that has ended: one per record,
\* and the failing one that the break follows
Iterations(e) == e.records + (IF e.how = "break" THEN 1 ELSE 0)

\* the record loop of every producer, where it stands and where it ended:
\* every record parsed so far has consumed at least the four bytes of its
\* header, out of the data_size bytes of the page; a loop that has ended
\* has either nothing left or was left by the break that follows a failing
\* call, and is not entered again
LoopBounded ==
    \A b \in Bufs :
       /\ 4 * prod[b].rec_no <= prod[b].parsed
       /\ prod[b].parsed <= prod[b].data_size
       /\ \A e \in Range(prod[b].loops) :
             /\ e.parsed <= e.data_size
             /\ e.how = "end" => e.left = 0
             /\ e.how = "break" => e.parsed + e.left = e.data_size
             /\ 4 * e.records <= e.parsed
             /\ 4 * Iterations(e) <= e.data_size + 3
       /\ \A k \in DOMAIN buffers[b].pages : Len(LoopSeq(b, k)) <= 1
       /\ prod[b].page_no <= Len(buffers[b].pages) + 1

\* how far the coroutine is within a page, by the yield it is suspended at
YieldRank(pos) ==
    CASE pos = "start" -> 0
      [] pos = "lost" -> 1
      [] pos = "rec" -> 2
      [] OTHER -> 3

\* a call of next() on the producer of buffer b ends it, or leaves it further
\* in its input: on a later page, or on the same page with more bytes
\* parsed, or with as many at a later yield
Advances(b) ==
    \/ prod'[b].pos \in {"done", "panic"}
    \/ prod'[b].page_no > prod[b].page_no
    \/ /\ prod'[b].page_no = prod[b].page_no
       /\ \/ prod'[b].parsed > prod[b].parsed
          \/ /\ prod'[b].parsed = prod[b].parsed
             /\ YieldRank(prod'[b].pos) > YieldRank(prod[b].pos)

(***************************************************************************)
(* C26: the record loop of a page always terminates: every successful      *)
(* parse_record call shortens the remaining data by at least the 4 bytes   *)
(* of the record header and every failing call ends the loop, so a page of *)
(* data_size bytes takes at most data_size / 4 iterations, and the         *)
(* producer of a finite buffer eventually ends: each call of next() leaves *)
(* it further in its pages, which are finitely many, or ends it, and once  *)
(* it has ended it is not resumed.                                         *)
(***************************************************************************)
C26_AsStated ==
    \A b \in Bufs : \A e \in Range(prod[b].loops) : Iterations(e) <= e.data_size \div 4

(***************************************************************************)
(* C26, amended: as above, a page of data_size bytes taking at most        *)
(* data_size / 4 iterations, rounded up.                                   *)
(***************************************************************************)
C26_RecordLoopTerminates ==
    /\ []LoopBounded
    /\ [][\A b \in Bufs :
            /\ steps'[b] # steps[b] => prod[b].pos # "done" /\ Advances(b)
            /\ steps'[b] = steps[b] => prod'[b] = prod[b]]_vars

\* the stream has ended after a record loop of three records that consumed
\* its page and a record loop left by its break with bytes remaining
C26_Witness ==
    /\ pc = "end"
    /\ \E b, c \in Bufs :
          /\ \E e \in Range(prod[b].loops) : e.how = "end" /\ e.parsed = 24 /\ e.records = 3
          /\ \E e \in Range(prod[c].loops) :
                e.how = "break" /\ e.left = 2 /\ e.data_size = 2 /\ Iterations(e) = 1

\* the items the producers of the stream have yielded
Yielded == UNION {Range(emitted[b]) : b \in Bufs}

Reverse(o) == CASE o = "Less" -> "Greater" [] o = "Greater" -> "Less" [] OTHER -> "Equal"

\* cmp is antisymmetric and transitive on the items yielded
CmpIsTotalOrder ==
    \A x, y \in Yielded :
       /\ cmp(y, x) = Reverse(cmp(x, y))
       /\ \A z \in Yielded :
             cmp(x, y) # "Greater" /\ cmp(y, z) # "Greater" => cmp(x, z) # "Greater"

(***************************************************************************)
(* C27: the equality of BufferItem agrees with its ordering, which is a    *)
(* total order: for any two items a and b, a == b iff cmp(a, b) is Equal   *)
(* (also for two events of the same timestamp on different cpus, and for   *)
(* two error items), and cmp is antisymmetric and transitive.              *)
(***************************************************************************)
C27_EqualityAgreesWithOrdering ==
    /\ \A x, y \in Yielded : eq(x, y) <=> cmp(x, y) = "Equal"
    /\ CmpIsTotalOrder

(***************************************************************************)
(* C28: parse_record never underflows its unsigned size arithmetic: for an *)
(* event record of explicit size (type 0), a size word below 4, and a      *)
(* payload size that is not a multiple of 4 in the padding computation,    *)
(* are handled without going below zero: no subtraction panics, and a      *)
(* record whose size word is below 4 is reported as a parse error.         *)
(***************************************************************************)
C28_SizeArithmeticDoesNotUnderflow ==
    Parsed(0) =>
       /\ SizeWord < 4 => record.result.tag = "err"
       /\ SizeWord < 4 \/ SizeWord % 4 # 0 => record.result.tag # "panic"

\* the scalar v is a value of the arithmetic type t: an unsigned type holds
\* a U64Scalar below 2^width, a signed type an I64Scalar that is the sign
\* extension of its low width bits
InRangeOf(v, t) ==
    IF IsSignedType(t)
    THEN v.tag = "I64Scalar" /\ as_signed(v.w, Width(t) \div 8) = v.w
    ELSE v.tag = "U64Scalar" /\ as_unsigned(v.w, Width(t) \div 8) = v.w

(***************************************************************************)
(* C29: the value of a binary arithmetic expression always lies in the     *)
(* range of its result type: when the common type of the operands is a     *)
(* 32-bit type the result is wrapped to 32 bits, 4294967295u + 1u          *)
(* evaluating to U64Scalar(0).  (Stated on the sums; the other operators   *)
(* are compiled by the same macro.)                                        *)
(***************************************************************************)
C29_BinopValueInRangeOfType ==
    SumOfArithmetic /\ interp.typ.ok =>
       /\ \A x \in Results : x.r.st = "ok" => InRangeOf(x.r.v, interp.typ.typ)
       /\ interp.expr = Add(IntConstant(Ty("U32"), Max32), IntConstant(Ty("U32"), Word(1)))
             => \A x \in Results : x.r = Ok(U64Scalar(Word(0)))

\* the run has compiled a && b or a || b into an evaluator
LogicalCompiled ==
    HasCompiled /\ interp.expr.e \in {"And", "Or"} /\ interp.compiled.st = "ok"

\* the value of the left operand of the expression of the run on its own,
\* at the given stage
LeftAt(stage) ==
    eval(compile(interp.expr.lhs, CompileEnvOfRun).ev, Env(stage, interp.overflow_checks))

\* the left operand decides the expression at that stage: it evaluates to 0
\* under &&, or to a non-zero scalar under ||
Decided(stage) ==
    /\ LeftAt(stage).st = "ok"
    /\ is_scalar(LeftAt(stage).v)
    /\ (LeftAt(stage).v.w = Zeros(8)) = (interp.expr.e = "And")

(***************************************************************************)
(* C30: logical AND and OR produce I64Scalar(0) or I64Scalar(1) with the   *)
(* short-circuit semantics of C: a && b evaluates to 0 whenever a          *)
(* evaluates to 0, and a || b to 1 whenever a evaluates to non-zero, even  *)
(* when the evaluation of b fails with an EvalError.                       *)
(***************************************************************************)
C30_LogicalShortCircuit ==
    LogicalCompiled =>
       \A x \in Results :
          /\ x.r.st = "ok" => x.r.v \in {I64Scalar(Word(0)), I64Scalar(Word(1))}
          /\ Decided(x.stage) =>
                x.r = Ok(I64Scalar(Word(IF interp.expr.e = "And" THEN 0 ELSE 1)))

====
